---- MODULE Spec2Model ----
(***************************************************************************)
(* Model of the Slack MCP server core: the URL parser, the mention         *)
(* extractor, the identity resolver with its process-wide cache, and the   *)
(* result assemblers of the three tools: read_message,                     *)
(* list_channel_messages and search_messages.                              *)
(*                                                                         *)
(* Go strings are TLA+ strings; a character of s is SubSeq(s, i, i).       *)
(* A nullable Go value (a pointer, an error) is a sequence of length 0     *)
(* (nil) or 1 (the value).                                                 *)
(***************************************************************************)
EXTENDS Integers, Sequences, FiniteSets, TLC

VARIABLES
    userCache,   \* Client.userCache: user id -> *UserInfo, for stored keys only
    tool,        \* request.Params.Name of the running tool call ("" when idle)
    arguments,   \* request.Params.Arguments of the running call: name -> value
    pc,          \* position of the running tool handler
    url,         \* the "url" argument of the running read_message call
    parsedURL,   \* urlparser.Parse result of the running call (nil before)
    result,      \* the result being assembled (nil before)
    locals,      \* locals of the running call: message, thread, loop state
    calls,       \* client-interface calls made by the running call, in order
    response,    \* the CallToolResult returned (nil while running)
    procs,       \* concurrent GetUserInfo callers: pc, argument, locals
    seqLog,      \* results of the GetUserInfo calls made one after another
    input,       \* the argument a function of the packages is applied to
    output       \* what the function returned (nil before it is applied)

requestVars == <<tool, arguments>>

applyVars == <<input, output>>

handlerVars == <<requestVars, pc, url, parsedURL, result, locals, calls, response>>

vars == <<userCache, tool, arguments, pc, url, parsedURL, result, locals, calls, response, procs, seqLog,
          input, output>>

-----------------------------------------------------------------------------
(* Bounds *)

MaxPages == 2

MaxReplyCount == 2

NumProcs == 2

MaxSeqCalls == 3

\* messages of one channel page, matches of one search page
MaxMessages == 2

\* pieces an argument text of a function is made of, at most
MaxPieces == 3

\* query parameters of a URL, at most
MaxParams == 2

\* pieces of a transport error text, at most
MaxKeywords == 2

-----------------------------------------------------------------------------
(* Nullable values and strings *)

Nil == <<>>

Some(x) == <<x>>

IsNil(p) == p = <<>>

Deref(p) == p[1]

CharAt(s, i) == SubSeq(s, i, i)

HasPrefix(s, p) == Len(s) >= Len(p) /\ SubSeq(s, 1, Len(p)) = p

HasSuffix(s, p) == Len(s) >= Len(p) /\ SubSeq(s, Len(s) - Len(p) + 1, Len(s)) = p

Contains(s, sub) == \E i \in 1..(Len(s) - Len(sub) + 1) : SubSeq(s, i, i + Len(sub) - 1) = sub

\* strings.Index for a one-character needle, 1-based; 0 when absent
IndexOf(s, c) ==
    LET idx == {i \in 1..Len(s) : CharAt(s, i) = c}
    IN  IF idx = {} THEN 0 ELSE CHOOSE i \in idx : \A j \in idx : i <= j

Digits == {"0", "1", "2", "3", "4", "5", "6", "7", "8", "9"}

Upper == {"A", "B", "C", "D", "E", "F", "G", "H", "I", "J", "K", "L", "M",
          "N", "O", "P", "Q", "R", "S", "T", "U", "V", "W", "X", "Y", "Z"}

Lower == {"a", "b", "c", "d", "e", "f", "g", "h", "i", "j", "k", "l", "m",
          "n", "o", "p", "q", "r", "s", "t", "u", "v", "w", "x", "y", "z"}

AllIn(s, class) == \A i \in 1..Len(s) : CharAt(s, i) \in class

-----------------------------------------------------------------------------
(* pkg/types: errors *)

ErrCodeInvalidURL == "invalid_url"

ErrCodeMessageNotFound == "message_not_found"

ErrCodeChannelNotFound == "channel_not_found"

ErrCodeNotInChannel == "not_in_channel"

ErrCodeRateLimited == "rate_limited"

ErrCodeInvalidToken == "invalid_token"

ErrCodePermissionDenied == "permission_denied"

NewSlackError(code, message) == Some([Code |-> code, Message |-> message])

GetErrorCode(err) == IF IsNil(err) THEN "" ELSE Deref(err).Code

isSlackErrorCode(err, code) == ~IsNil(err) /\ Deref(err).Code = code

\* channel_not_found is looked for before the rate limit
wrapSlackError_ChannelFirst(err) ==
    IF IsNil(err) THEN Nil
    ELSE LET errStr == Deref(err).Message IN
         IF Contains(errStr, "channel_not_found")
           THEN NewSlackError(ErrCodeChannelNotFound, "Channel not found. The channel may have been deleted or the ID is incorrect.")
         ELSE IF Contains(errStr, "rate_limit") \/ Contains(errStr, "ratelimited")
           THEN NewSlackError(ErrCodeRateLimited, "Slack API rate limit exceeded. Please wait and try again.")
         ELSE IF Contains(errStr, "invalid_auth") \/ Contains(errStr, "not_authed")
           THEN NewSlackError(ErrCodeInvalidToken, "Invalid or expired Slack bot token. Please check your SLACK_BOT_TOKEN.")
         ELSE IF Contains(errStr, "missing_scope") \/ Contains(errStr, "token_expired")
           THEN NewSlackError(ErrCodeInvalidToken, "Slack bot token lacks required scopes or has expired.")
         ELSE IF Contains(errStr, "not_in_channel")
           THEN NewSlackError(ErrCodeNotInChannel, "Bot is not a member of this channel. Please invite the bot to the channel.")
         ELSE IF Contains(errStr, "access_denied") \/ Contains(errStr, "is_archived")
           THEN NewSlackError(ErrCodePermissionDenied, "Access denied. The channel may be archived or the bot lacks permissions.")
         ELSE IF Contains(errStr, "message_not_found") \/ Contains(errStr, "thread_not_found")
           THEN NewSlackError(ErrCodeMessageNotFound, "Message or thread not found.")
         ELSE NewSlackError("slack_error", "Slack API error: " \o errStr)

\* internal/slack/errors.go: keyword classification of a transport error
wrapSlackError(err) ==
    IF IsNil(err) THEN Nil
    ELSE LET errStr == Deref(err).Message IN
         IF Contains(errStr, "rate_limit") \/ Contains(errStr, "ratelimited")
           THEN NewSlackError(ErrCodeRateLimited, "Slack API rate limit exceeded. Please wait and try again.")
         ELSE IF Contains(errStr, "invalid_auth") \/ Contains(errStr, "not_authed")
           THEN NewSlackError(ErrCodeInvalidToken, "Invalid or expired Slack bot token. Please check your SLACK_BOT_TOKEN.")
         ELSE IF Contains(errStr, "missing_scope") \/ Contains(errStr, "token_expired")
           THEN NewSlackError(ErrCodeInvalidToken, "Slack bot token lacks required scopes or has expired.")
         ELSE IF Contains(errStr, "channel_not_found")
           THEN NewSlackError(ErrCodeChannelNotFound, "Channel not found. The channel may have been deleted or the ID is incorrect.")
         ELSE IF Contains(errStr, "not_in_channel")
           THEN NewSlackError(ErrCodeNotInChannel, "Bot is not a member of this channel. Please invite the bot to the channel.")
         ELSE IF Contains(errStr, "access_denied") \/ Contains(errStr, "is_archived")
           THEN NewSlackError(ErrCodePermissionDenied, "Access denied. The channel may be archived or the bot lacks permissions.")
         ELSE IF Contains(errStr, "message_not_found") \/ Contains(errStr, "thread_not_found")
           THEN NewSlackError(ErrCodeMessageNotFound, "Message or thread not found.")
         ELSE NewSlackError("slack_error", "Slack API error: " \o errStr)

\* an error of the slack-go library: only its text is observable
TransportError(text) == Some([Code |-> "", Message |-> text])

-----------------------------------------------------------------------------
(* internal/urlparser *)

\* the part of s before the first c (all of s when there is none), and the
\* part after it ("" when there is none)
CutBefore(s, c) == IF IndexOf(s, c) = 0 THEN s ELSE SubSeq(s, 1, IndexOf(s, c) - 1)

CutAfter(s, c) == IF IndexOf(s, c) = 0 THEN "" ELSE SubSeq(s, IndexOf(s, c) + 1, Len(s))

\* the part of s after the first "@", all of s when there is none
CutAfterOrAll(s) == IF IndexOf(s, "@") = 0 THEN s ELSE CutAfter(s, "@")

UpperLetters == "ABCDEFGHIJKLMNOPQRSTUVWXYZ"

LowerLetters == "abcdefghijklmnopqrstuvwxyz"

RECURSIVE ToLower(_)
\* strings.ToLower on ASCII
ToLower(s) ==
    IF s = "" THEN ""
    ELSE (IF CharAt(s, 1) \in Upper
            THEN CharAt(LowerLetters, IndexOf(UpperLetters, CharAt(s, 1)))
            ELSE CharAt(s, 1))
         \o ToLower(SubSeq(s, 2, Len(s)))

\* the characters of the ASCII codes 32 to 126, in order (a space stands
\* for the backquote, code 96, which no argument of the model holds)
PrintableASCII ==
    " !\"#$%&'()*+,-./0123456789:;<=>?@ABCDEFGHIJKLMNOPQRSTUVWXYZ[\\]^_ abcdefghijklmnopqrstuvwxyz{|}~"

\* net/url ishex and unhex
IsHex(c) == IndexOf("0123456789abcdefABCDEF", c) > 0

Unhex(c) ==
    IF IndexOf("0123456789abcdef", c) > 0 THEN IndexOf("0123456789abcdef", c) - 1
    ELSE IndexOf("0123456789ABCDEF", c) - 1

\* the positions of s holding a "%" that two hex digits do not follow
BadEscapes(s) ==
    {i \in 1..Len(s) :
        /\ CharAt(s, i) = "%"
        /\ ~(i + 2 <= Len(s) /\ IsHex(CharAt(s, i + 1)) /\ IsHex(CharAt(s, i + 2)))}

\* the byte of an escape; the escapes of the model all denote characters of
\* PrintableASCII
EscapedChar(hi, lo) == CharAt(PrintableASCII, 16 * Unhex(hi) + Unhex(lo) - 31)

RECURSIVE Unescape(_, _)
\* net/url unescape of a string without bad escapes: %XX is the byte XX,
\* and "+" is a space when plusIsSpace (the query component)
Unescape(s, plusIsSpace) ==
    IF s = "" THEN ""
    ELSE IF CharAt(s, 1) = "%"
      THEN EscapedChar(CharAt(s, 2), CharAt(s, 3)) \o Unescape(SubSeq(s, 4, Len(s)), plusIsSpace)
    ELSE IF CharAt(s, 1) = "+" /\ plusIsSpace
      THEN " " \o Unescape(SubSeq(s, 2, Len(s)), plusIsSpace)
    ELSE CharAt(s, 1) \o Unescape(SubSeq(s, 2, Len(s)), plusIsSpace)

\* the text of net/url's EscapeError for the first bad escape of s
EscapeError(s) ==
    "invalid URL escape \""
    \o SubSeq(s, CHOOSE i \in BadEscapes(s) : \A j \in BadEscapes(s) : i <= j,
              IF (CHOOSE i \in BadEscapes(s) : \A j \in BadEscapes(s) : i <= j) + 2 <= Len(s)
                THEN (CHOOSE i \in BadEscapes(s) : \A j \in BadEscapes(s) : i <= j) + 2
                ELSE Len(s))
    \o "\""

\* net/url.Parse restricted to the parts Parse reads: scheme, host, path and
\* raw query; err is the text of the parse error, "" when there is none.
\* The fragment is cut off first, then the query, then the scheme (letters,
\* digits, "+-." before the first ":", lowercased), then the //authority;
\* the path is unescaped.
URLParts(err, scheme, host, path, rawQuery) ==
    [err |-> err, Scheme |-> scheme, Host |-> host, Path |-> path, RawQuery |-> rawQuery]

\* rest starts with "//": the authority runs to the next "/", the host is
\* what follows the userinfo
SplitAuthority(err, scheme, rest, rawQuery) ==
    IF HasPrefix(rest, "//")
      THEN URLParts(err, scheme,
                    CutAfterOrAll(CutBefore(SubSeq(rest, 3, Len(rest)), "/")),
                    SubSeq(rest, 2 + Len(CutBefore(SubSeq(rest, 3, Len(rest)), "/")) + 1, Len(rest)),
                    rawQuery)
      ELSE URLParts(err, scheme, "", rest, rawQuery)

\* a ":" before any "/" ends the scheme; an empty scheme is an error
ColonFirst(s) == IndexOf(s, ":") > 0 /\ (IndexOf(s, "/") = 0 \/ IndexOf(s, ":") < IndexOf(s, "/"))

HasScheme(s) ==
    /\ ColonFirst(s)
    /\ IndexOf(s, ":") > 1
    /\ CharAt(s, 1) \in Upper \cup Lower
    /\ AllIn(CutBefore(s, ":"), Upper \cup Lower \cup Digits \cup {"+", "-", "."})

SplitScheme(noQuery, rawQuery) ==
    IF HasScheme(noQuery)
      THEN SplitAuthority("", ToLower(CutBefore(noQuery, ":")), CutAfter(noQuery, ":"), rawQuery)
      ELSE SplitAuthority(IF ColonFirst(noQuery) /\ IndexOf(noQuery, ":") = 1
                            THEN "missing protocol scheme" ELSE "",
                          "", noQuery, rawQuery)

SplitQuery(noFragment) == SplitScheme(CutBefore(noFragment, "?"), CutAfter(noFragment, "?"))

\* setPath: the path is stored unescaped, a bad escape is a parse error
UnescapePath(u) ==
    IF u.err # "" THEN u
    ELSE IF BadEscapes(u.Path) # {} THEN [u EXCEPT !.err = EscapeError(u.Path)]
    ELSE [u EXCEPT !.Path = Unescape(u.Path, FALSE)]

SplitURL(s) == UnescapePath(SplitQuery(CutBefore(s, "#")))

\* url.Values.Get drops every pair
QueryGet_Nothing(rawQ, k) == ""

RECURSIVE QueryGet(_, _)
\* url.Values.Get after parseQuery: the unescaped value of the first pair
\* of the raw query whose unescaped key is k, "" when there is none; a pair
\* that is empty, holds a ";" or has a bad escape is dropped
QueryGet(rawQ, k) ==
    IF rawQ = "" THEN ""
    ELSE IF \/ CutBefore(rawQ, "&") = ""
            \/ IndexOf(CutBefore(rawQ, "&"), ";") > 0
            \/ BadEscapes(CutBefore(rawQ, "&")) # {}
      THEN QueryGet(CutAfter(rawQ, "&"), k)
    ELSE IF Unescape(CutBefore(CutBefore(rawQ, "&"), "="), TRUE) = k
      THEN Unescape(CutAfter(CutBefore(rawQ, "&"), "="), TRUE)
    ELSE QueryGet(CutAfter(rawQ, "&"), k)

NoMatch == [ok |-> FALSE, channel |-> "", digits |-> ""]

\* /p(\d+)$ after the channel
MatchTimestamp(channel, tail) ==
    IF HasPrefix(tail, "p") /\ Len(tail) >= 2 /\ AllIn(SubSeq(tail, 2, Len(tail)), Digits)
      THEN [ok |-> TRUE, channel |-> channel, digits |-> SubSeq(tail, 2, Len(tail))]
      ELSE NoMatch

\* lowercase letters are accepted in the channel id
MatchChannel_AnyCase(seg) ==
    IF IndexOf(seg, "/") > 1 /\ AllIn(CutBefore(seg, "/"), Upper \cup Lower \cup Digits)
      THEN MatchTimestamp(CutBefore(seg, "/"), CutAfter(seg, "/"))
      ELSE NoMatch

\* ([A-Z0-9]+)/ after /archives/
MatchChannel(seg) ==
    IF IndexOf(seg, "/") > 1 /\ AllIn(CutBefore(seg, "/"), Upper \cup Digits)
      THEN MatchTimestamp(CutBefore(seg, "/"), CutAfter(seg, "/"))
      ELSE NoMatch

\* [^/]+\.slack\.com/archives/ after https://
MatchHost(rest) ==
    IF /\ IndexOf(rest, "/") > 0
       /\ HasSuffix(CutBefore(rest, "/"), ".slack.com")
       /\ Len(CutBefore(rest, "/")) > Len(".slack.com")
       /\ HasPrefix(CutAfter(rest, "/"), "archives/")
      THEN MatchChannel(SubSeq(CutAfter(rest, "/"), 10, Len(CutAfter(rest, "/"))))
      ELSE NoMatch

\* slackURLPattern: ^https://[^/]+\.slack\.com/archives/([A-Z0-9]+)/p(\d+)$
slackURLPattern(base) ==
    IF HasPrefix(base, "https://") THEN MatchHost(SubSeq(base, 9, Len(base))) ELSE NoMatch

\* the length check is missing
convertTimestamp_AnyLength(urlTimestamp) ==
    [ts |-> SubSeq(urlTimestamp, 1, 10) \o "." \o SubSeq(urlTimestamp, 11, Len(urlTimestamp)), err |-> Nil]

\* the dot is inserted after the 9th digit
convertTimestamp_DotAfterNine(urlTimestamp) ==
    IF Len(urlTimestamp) # 16
      THEN [ts |-> "", err |-> Some("invalid timestamp format: expected 16 digits, got " \o ToString(Len(urlTimestamp)))]
    ELSE IF ~AllIn(urlTimestamp, Digits)
      THEN [ts |-> "", err |-> Some("invalid timestamp format: contains non-digit characters")]
    ELSE [ts |-> SubSeq(urlTimestamp, 1, 9) \o "." \o SubSeq(urlTimestamp, 10, 16), err |-> Nil]

convertTimestamp(urlTimestamp) ==
    IF Len(urlTimestamp) # 16
      THEN [ts |-> "", err |-> Some("invalid timestamp format: expected 16 digits, got " \o ToString(Len(urlTimestamp)))]
    ELSE IF ~AllIn(urlTimestamp, Digits)
      THEN [ts |-> "", err |-> Some("invalid timestamp format: contains non-digit characters")]
    ELSE [ts |-> SubSeq(urlTimestamp, 1, 10) \o "." \o SubSeq(urlTimestamp, 11, 16), err |-> Nil]

InvalidURL(message) == [url |-> Nil, err |-> NewSlackError(ErrCodeInvalidURL, message)]

\* lines 54-73: the timestamp conversion and the thread_ts parameter
ParseMatched(channelID, conv, threadTS) ==
    IF ~IsNil(conv.err) THEN InvalidURL(Deref(conv.err))
    ELSE [url |-> Some([ChannelID |-> channelID,
                        Timestamp |-> conv.ts,
                        ThreadTS  |-> threadTS,
                        IsThread  |-> threadTS # ""]),
          err |-> Nil]

\* lines 44-52: the pattern match
ParseBase(matches, rawQuery) ==
    IF ~matches.ok THEN InvalidURL("invalid Slack message URL format. Expected: https://workspace.slack.com/archives/{channel_id}/p{timestamp}")
    ELSE ParseMatched(matches.channel, convertTimestamp(matches.digits), QueryGet(rawQuery, "thread_ts"))

\* lines 31-42: url.Parse, the host suffix, the base URL without the query
ParseURL(slackURL, u) ==
    IF u.err # ""
      THEN InvalidURL("failed to parse URL: parse \"" \o slackURL \o "\": " \o u.err)
    ELSE IF ~HasSuffix(u.Host, ".slack.com") THEN InvalidURL("URL must be a slack.com URL")
    ELSE ParseBase(slackURLPattern(u.Scheme \o "://" \o u.Host \o u.Path), u.RawQuery)

Parse(slackURL) ==
    IF slackURL = "" THEN InvalidURL("URL cannot be empty") ELSE ParseURL(slackURL, SplitURL(slackURL))

-----------------------------------------------------------------------------
(* internal/slack: messages, the mention extractor *)

Message(user, text, ts, threadTS, replyCount) ==
    [User |-> user, UserName |-> "", DisplayName |-> "", RealName |-> "",
     Text |-> text, Timestamp |-> ts, ThreadTS |-> threadTS, ReplyCount |-> replyCount]

\* the fields convertMessage copies from a slack.Message
convertMessage(msg) ==
    Message(msg.User, msg.Text, msg.Timestamp, msg.ThreadTimestamp, msg.ReplyCount)

HasThread(message) == ~IsNil(message) /\ Deref(message).ReplyCount > 0

\* length of the longest run of [A-Z0-9] characters of text starting at i
RECURSIVE IDRun(_, _)
IDRun(text, i) ==
    IF i <= Len(text) /\ CharAt(text, i) \in Upper \cup Digits
      THEN 1 + IDRun(text, i + 1)
      ELSE 0

\* mentionPattern <@(U[A-Z0-9]+)> : all leftmost non-overlapping matches of
\* text from position i on, as the sequence of their captured ids
RECURSIVE FindAllMentions(_, _)
FindAllMentions(text, i) ==
    IF i + 4 > Len(text) THEN <<>>
    ELSE LET run == IDRun(text, i + 3)
             end == i + 3 + run
         IN  IF /\ SubSeq(text, i, i + 2) = "<@U"
                /\ run >= 1
                /\ end <= Len(text)
                /\ CharAt(text, end) = ">"
               THEN <<SubSeq(text, i + 2, end - 1)>> \o FindAllMentions(text, end + 1)
               ELSE FindAllMentions(text, i + 1)

RECURSIVE Dedup(_, _)
\* every match is appended, seen or not
Dedup_KeepsAll(ids, seen) == ids

\* the "seen" loop of ExtractMentions: first occurrences, in order
Dedup(ids, seen) ==
    IF ids = <<>> THEN <<>>
    ELSE IF Head(ids) \in seen THEN Dedup(Tail(ids), seen)
    ELSE <<Head(ids)>> \o Dedup(Tail(ids), seen \cup {Head(ids)})

\* the []string ExtractMentions returns: []string{} when nothing matches,
\* else userIDs, which is nil until the first append
ExtractMentionsSlice(text) ==
    IF Len(FindAllMentions(text, 1)) = 0 THEN Some(<<>>)
    ELSE IF Len(Dedup(FindAllMentions(text, 1), {})) = 0 THEN Nil
    ELSE Some(Dedup(FindAllMentions(text, 1), {}))

\* the elements of that slice
ExtractMentions(text) ==
    IF IsNil(ExtractMentionsSlice(text)) THEN <<>> ELSE Deref(ExtractMentionsSlice(text))

Range(f) == {f[x] : x \in DOMAIN f}

-----------------------------------------------------------------------------
(* internal/slack: the identity resolver and its cache *)

UserInfo(id, name, displayName, realName, isBot, isDeleted) ==
    [ID |-> id, Name |-> name, DisplayName |-> displayName, RealName |-> realName,
     IsBot |-> isBot, IsDeleted |-> isDeleted]

convertUser(user) ==
    LET d1 == user.ProfileDisplayName
        d2 == IF d1 = "" THEN user.ProfileRealName ELSE d1
        d3 == IF d2 = "" THEN user.Name ELSE d2
    IN  UserInfo(user.ID, user.Name, d3, user.ProfileRealName, user.IsBot, user.Deleted)

\* sync.Map: the cache is a function whose domain is the set of stored keys
EmptyCache == [k \in {} |-> Nil]

\* the lookup never hits
CacheHas_Never(cache, userID) == FALSE

CacheHas(cache, userID) == userID \in DOMAIN cache

CacheLoad(cache, userID) == Some(cache[userID])

\* the store is lost
CacheStore_Lost(cache, userID, info) == cache

CacheStore(cache, userID, info) ==
    [k \in DOMAIN cache \cup {userID} |-> IF k = userID THEN info ELSE cache[k]]

\* the placeholder of a deleted user is returned but not cached
FetchUserInfo_PlaceholderNotCached(userID, reply) ==
    IF ~IsNil(reply.err)
      THEN LET errStr == Deref(reply.err).Message IN
           IF Contains(errStr, "user_not_found") \/ Contains(errStr, "users_not_found")
             THEN [info  |-> Some(UserInfo(userID, "deleted_user", "Deleted User", "Deleted User", FALSE, TRUE)),
                   err   |-> Nil,
                   store |-> FALSE]
             ELSE [info |-> Nil, err |-> wrapSlackError(reply.err), store |-> FALSE]
      ELSE [info |-> Some(convertUser(Deref(reply.user))), err |-> Nil, store |-> TRUE]

\* every failure of the directory is taken for a deleted user
FetchUserInfo_FailureAsDeleted(userID, reply) ==
    IF ~IsNil(reply.err)
      THEN [info  |-> Some(UserInfo(userID, "deleted_user", "Deleted User", "Deleted User", FALSE, TRUE)),
            err   |-> Nil,
            store |-> TRUE]
      ELSE [info |-> Some(convertUser(Deref(reply.user))), err |-> Nil, store |-> TRUE]

\* GetUserInfo from the directory reply on: what is returned, and whether
\* (and what) is stored in the cache
FetchUserInfo(userID, reply) ==
    IF ~IsNil(reply.err)
      THEN LET errStr == Deref(reply.err).Message IN
           IF Contains(errStr, "user_not_found") \/ Contains(errStr, "users_not_found")
             THEN [info  |-> Some(UserInfo(userID, "deleted_user", "Deleted User", "Deleted User", FALSE, TRUE)),
                   err   |-> Nil,
                   store |-> TRUE]
             ELSE [info |-> Nil, err |-> wrapSlackError(reply.err), store |-> FALSE]
      ELSE [info |-> Some(convertUser(Deref(reply.user))), err |-> Nil, store |-> TRUE]

\* the empty id is looked up like any other
GetUserInfo_NoEmptyCheck(cache, userID, reply) ==
    IF CacheHas(cache, userID)
      THEN [info |-> CacheLoad(cache, userID), err |-> Nil, cache |-> cache, port |-> FALSE]
    ELSE LET r == FetchUserInfo(userID, reply)
         IN  [info  |-> r.info,
              err   |-> r.err,
              cache |-> IF r.store THEN CacheStore(cache, userID, Deref(r.info)) ELSE cache,
              port  |-> TRUE]

\* GetUserInfo run without interleaving: its two results, the cache it
\* leaves, and whether it called the directory
GetUserInfo(cache, userID, reply) ==
    IF userID = ""
      THEN [info |-> Nil, err |-> Nil, cache |-> cache, port |-> FALSE]
    ELSE IF CacheHas(cache, userID)
      THEN [info |-> CacheLoad(cache, userID), err |-> Nil, cache |-> cache, port |-> FALSE]
    ELSE LET r == FetchUserInfo(userID, reply)
         IN  [info  |-> r.info,
              err   |-> r.err,
              cache |-> IF r.store THEN CacheStore(cache, userID, Deref(r.info)) ELSE cache,
              port  |-> TRUE]

\* the profile is fetched from the directory without the cache
GetCurrentUser_Uncached(cache, auth, reply) ==
    IF ~IsNil(auth.err)
      THEN [info |-> Nil, err |-> wrapSlackError(auth.err), cache |-> cache, port |-> FALSE]
      ELSE [info |-> FetchUserInfo(auth.UserID, reply).info,
            err |-> FetchUserInfo(auth.UserID, reply).err,
            cache |-> cache,
            port |-> TRUE]

\* GetCurrentUser: auth.test, then GetUserInfo of the id it returned
GetCurrentUser(cache, auth, reply) ==
    IF ~IsNil(auth.err)
      THEN [info |-> Nil, err |-> wrapSlackError(auth.err), cache |-> cache, port |-> FALSE]
      ELSE GetUserInfo(cache, auth.UserID, reply)

-----------------------------------------------------------------------------
(* What the remote service can answer *)

\* users.info replies for one id: two different profiles, user_not_found
\* and a transport failure
DirectoryReplies(id) ==
    {[user |-> Some([ID |-> id, Name |-> "alice", ProfileDisplayName |-> "Al",
                     ProfileRealName |-> "Alice A", IsBot |-> FALSE, Deleted |-> FALSE]),
      err  |-> Nil],
     [user |-> Some([ID |-> id, Name |-> "robo", ProfileDisplayName |-> "",
                     ProfileRealName |-> "", IsBot |-> TRUE, Deleted |-> FALSE]),
      err  |-> Nil],
     [user |-> Nil, err |-> TransportError("user_not_found")],
     [user |-> Nil, err |-> TransportError("slack rate limit exceeded: ratelimited")]}

\* auth.test replies
AuthTestReplies ==
    {[UserID |-> "U1", err |-> Nil],
     [UserID |-> "", err |-> TransportError("invalid_auth")]}

RemoteErrorTexts ==
    {"ratelimited", "invalid_auth", "channel_not_found", "not_in_channel",
     "is_archived", "thread_not_found", "connection reset by peer"}

RemoteMessage(user, text, ts, threadTS, replyCount) ==
    [User |-> user, Text |-> text, Timestamp |-> ts, ThreadTimestamp |-> threadTS,
     ReplyCount |-> replyCount]

OtherTimestamp == "1355517000.000001"

\* conversations.history replies to a request for the message at ts
HistoryReplies(ts) ==
    {[err |-> TransportError(t), Ok |-> FALSE, Error |-> "", Messages |-> <<>>] : t \in RemoteErrorTexts}
    \cup {[err |-> Nil, Ok |-> FALSE, Error |-> "fatal_error", Messages |-> <<>>],
          [err |-> Nil, Ok |-> TRUE, Error |-> "", Messages |-> <<>>]}
    \cup {[err |-> Nil, Ok |-> TRUE, Error |-> "",
           Messages |-> <<RemoteMessage(a[1], a[2], t[1], t[2], rc)>>] :
            a \in {<<"U1", "cc <@U1> and <@U2>">>, <<"", "hi">>},
            t \in {<<ts, "">>, <<"1355517523.000009", "1355517999.000009">>},
            rc \in 0..MaxReplyCount}

\* messages a conversations.replies page can carry
ThreadMessages ==
    {RemoteMessage("U2", "ok <@U1> <@U1>", OtherTimestamp, OtherTimestamp, 1),
     RemoteMessage("", "joined", "1355517001.000002", OtherTimestamp, 0)}

\* what one page can carry: nothing, one message, two messages
PageContents ==
    {<<>>} \cup {<<m>> : m \in ThreadMessages}
    \cup {<<m1, m2>> : m1 \in {m \in ThreadMessages : m.User # ""},
                       m2 \in {m \in ThreadMessages : m.User = ""}}

\* one conversations.replies page
RepliesPage(err, messages, hasMore, nextCursor) ==
    [err |-> err, Messages |-> messages, HasMore |-> hasMore, NextCursor |-> nextCursor]

RECURSIVE PageStreams(_)
\* what the remote answers to the successive conversations.replies requests
\* of one GetThread call: n pages at most, every page but the last one
\* announcing more, the last one failing or announcing no more
PageStreams(n) ==
    LET lasts == {<<RepliesPage(TransportError(t), <<>>, FALSE, "")>> : t \in RemoteErrorTexts}
                 \cup {<<RepliesPage(Nil, ms, FALSE, "")>> : ms \in PageContents}
    IN  IF n <= 1 THEN lasts
        ELSE lasts \cup {<<RepliesPage(Nil, ms, TRUE, "next")>> \o rest :
                            ms \in PageContents, rest \in PageStreams(n - 1)}

-----------------------------------------------------------------------------
(* internal/slack: GetMessage and GetThread *)

GetMessage(history, channelID, timestamp) ==
    IF ~IsNil(history.err)
      THEN [message |-> Nil, err |-> wrapSlackError(history.err)]
    ELSE IF ~history.Ok
      THEN [message |-> Nil,
            err |-> NewSlackError(ErrCodeMessageNotFound, "Slack API error: " \o history.Error)]
    ELSE IF Len(history.Messages) = 0
      THEN [message |-> Nil,
            err |-> NewSlackError(ErrCodeMessageNotFound,
                        "message not found in channel " \o channelID \o " with timestamp " \o timestamp)]
    ELSE [message |-> Some(convertMessage(history.Messages[1])), err |-> Nil]

RECURSIVE GetThreadLoop(_, _, _)
\* the pagination loop of GetThread from request number i on, allMessages
\* holding the messages of the pages before
GetThreadLoop(pages, i, allMessages) ==
    LET page == pages[i]
        all  == allMessages \o [k \in 1..Len(page.Messages) |-> convertMessage(page.Messages[k])]
    IN  IF ~IsNil(page.err) THEN [thread |-> <<>>, err |-> wrapSlackError(page.err), requests |-> i]
        ELSE IF ~page.HasMore THEN [thread |-> all, err |-> Nil, requests |-> i]
        ELSE GetThreadLoop(pages, i + 1, all)

GetThread(pages, channelID, threadTS) ==
    LET r == GetThreadLoop(pages, 1, <<>>)
    IN  IF ~IsNil(r.err) THEN r
        ELSE IF Len(r.thread) = 0
          THEN [thread |-> <<>>,
                err |-> NewSlackError(ErrCodeMessageNotFound,
                            "thread not found in channel " \o channelID \o " with timestamp " \o threadTS),
                requests |-> r.requests]
        ELSE r

-----------------------------------------------------------------------------
(* internal/tools/read_message.go: pure parts *)

\* json.Marshal of a Message: the object as a function from its keys, the
\* omitempty fields left out when empty
MarshalMessage(m) ==
    LET keys == {"user", "text", "timestamp"}
                \cup (IF m.UserName # "" THEN {"user_name"} ELSE {})
                \cup (IF m.DisplayName # "" THEN {"display_name"} ELSE {})
                \cup (IF m.RealName # "" THEN {"real_name"} ELSE {})
                \cup (IF m.ThreadTS # "" THEN {"thread_ts"} ELSE {})
                \cup (IF m.ReplyCount # 0 THEN {"reply_count"} ELSE {})
    IN  [k \in keys |->
            CASE k = "user" -> <<m.User>>
              [] k = "text" -> <<m.Text>>
              [] k = "timestamp" -> <<m.Timestamp>>
              [] k = "user_name" -> <<m.UserName>>
              [] k = "display_name" -> <<m.DisplayName>>
              [] k = "real_name" -> <<m.RealName>>
              [] k = "thread_ts" -> <<m.ThreadTS>>
              [] k = "reply_count" -> <<m.ReplyCount>>]

\* json.Marshal of a ReadMessageResult
MarshalResult(r) ==
    LET keys == {"message", "channel_id"}
                \cup (IF Len(r.Thread) > 0 THEN {"thread"} ELSE {})
                \cup (IF ~IsNil(r.CurrentUser) THEN {"current_user"} ELSE {})
                \cup (IF DOMAIN r.UserMapping # {} THEN {"user_mapping"} ELSE {})
    IN  [k \in keys |->
            CASE k = "message" -> <<MarshalMessage(r.Message)>>
              [] k = "channel_id" -> <<r.ChannelID>>
              [] k = "thread" -> [i \in 1..Len(r.Thread) |-> MarshalMessage(r.Thread[i])]
              [] k = "current_user" -> r.CurrentUser
              [] k = "user_mapping" -> <<r.UserMapping>>]

\* a CallToolResult: the text content is the JSON object (when there is one)
\* followed by text
NewToolResultError(text) == [IsError |-> TRUE, JSON |-> Nil, Text |-> text]

NewToolResultText(json, text) == [IsError |-> FALSE, JSON |-> Some(json), Text |-> text]

handleError(err) ==
    IF isSlackErrorCode(err, ErrCodeRateLimited)
      THEN NewToolResultError("Rate limit exceeded. Slack limits API requests to approximately 1 per minute for non-marketplace apps. Please wait and try again.")
    ELSE IF isSlackErrorCode(err, ErrCodeInvalidToken)
      THEN NewToolResultError("Authentication failed. Please check that SLACK_BOT_TOKEN is valid and not expired.")
    ELSE IF isSlackErrorCode(err, ErrCodeChannelNotFound)
      THEN NewToolResultError("Channel not found. The channel may have been deleted, or the ID in the URL is incorrect.")
    ELSE IF isSlackErrorCode(err, ErrCodeNotInChannel)
      THEN NewToolResultError("The bot is not a member of this channel. Please invite the bot to the channel first.")
    ELSE IF isSlackErrorCode(err, ErrCodeMessageNotFound)
      THEN NewToolResultError("Message not found. The message may have been deleted, or the timestamp in the URL is incorrect.")
    ELSE IF isSlackErrorCode(err, ErrCodePermissionDenied)
      THEN NewToolResultError("Permission denied. The bot may lack required scopes or the channel is archived.")
    ELSE IF GetErrorCode(err) = ErrCodeInvalidURL
      THEN NewToolResultError("Invalid Slack URL format. Details: " \o Deref(err).Message)
    ELSE NewToolResultError("Failed to read message: " \o Deref(err).Message)

ThreadNote == "\n\nNote: Failed to fetch thread replies: "

\* the thread-fetch failure is reported like a primary-fetch failure
handlePartialResult_Fatal(res, threadErr) == handleError(threadErr)

handlePartialResult(res, threadErr) ==
    NewToolResultText(MarshalResult(res), ThreadNote \o Deref(threadErr).Message)

successResult(res) == NewToolResultText(MarshalResult(res), "")

\* a failed lookup costs the message its text
resolveUserForMessage_ClearsOnFailure(cache, msg, reply) ==
    IF msg.User = "" THEN [msg |-> msg, cache |-> cache, called |-> FALSE, err |-> Nil]
    ELSE [msg    |-> IF ~IsNil(GetUserInfo(cache, msg.User, reply).err)
                       THEN [msg EXCEPT !.Text = ""]
                       ELSE [msg EXCEPT !.UserName = Deref(GetUserInfo(cache, msg.User, reply).info).Name,
                                        !.DisplayName = Deref(GetUserInfo(cache, msg.User, reply).info).DisplayName,
                                        !.RealName = Deref(GetUserInfo(cache, msg.User, reply).info).RealName],
          cache  |-> GetUserInfo(cache, msg.User, reply).cache,
          called |-> TRUE,
          err    |-> GetUserInfo(cache, msg.User, reply).err]

\* resolveUserForMessage against the cache: the message with its name fields
\* filled in when the lookup gives an identity, the cache after the lookup,
\* and whether GetUserInfo was called
resolveUserForMessage(cache, msg, reply) ==
    IF msg.User = "" THEN [msg |-> msg, cache |-> cache, called |-> FALSE, err |-> Nil]
    ELSE LET r == GetUserInfo(cache, msg.User, reply)
         IN  [msg    |-> IF ~IsNil(r.err) \/ IsNil(r.info) THEN msg
                         ELSE [msg EXCEPT !.UserName = Deref(r.info).Name,
                                          !.DisplayName = Deref(r.info).DisplayName,
                                          !.RealName = Deref(r.info).RealName],
              cache  |-> r.cache,
              called |-> TRUE,
              err    |-> r.err]

\* the first loops of buildUserMapping: the set of ids mentioned in the
\* primary message and in the thread messages
mentionedUserIDs(res) ==
    Range(ExtractMentions(res.Message.Text))
    \cup UNION {Range(ExtractMentions(res.Thread[i].Text)) : i \in 1..Len(res.Thread)}

\* the thread is fetched only when both signals hold
shouldFetchThread_And(parsed, message) == parsed.IsThread /\ HasThread(Some(message))

shouldFetchThread(parsed, message) == parsed.IsThread \/ HasThread(Some(message))

\* the thread_ts of the fetched message is preferred to the URL's
threadAnchor_FromMessage(parsed, message) ==
    IF message.ThreadTS # "" THEN message.ThreadTS
    ELSE IF parsed.ThreadTS = "" THEN message.Timestamp ELSE parsed.ThreadTS

threadAnchor(parsed, message) ==
    IF parsed.ThreadTS = "" THEN message.Timestamp ELSE parsed.ThreadTS

Call(op, a, b, err) == [op |-> op, a |-> a, b |-> b, err |-> err]

\* a call logged with what it returned besides the error
CallReturning(op, a, b, err, ret) == [op |-> op, a |-> a, b |-> b, err |-> err, ret |-> ret]

-----------------------------------------------------------------------------
(* ReadMessageHandler.Handle, one step per call of the client interface *)

URLInputs ==
    {"",
     "not-a-url",
     "http://ws.slack.com/archives/C01234567/p1355517523000008",
     "https://ws.slack.com/archives/C01234567/p13555175230",
     "https://ws.slack.com/archives/C01234567/p1355517523000008",
     "https://ws.slack.com/archives/C01234567/p1355517523000008?thread_ts=" \o OtherTimestamp \o "&cid=C01234567",
     "https://ws.slack.com/archives/C01234567/p1355517523000008?thread_ts=#x"}

\* an argument map without arguments
NoArguments == [k \in {} |-> Nil]

NoLocals == [message |-> Nil, thread |-> <<>>, i |-> 0, ids |-> {}, mapping |-> EmptyCache]

NewResult(message, channelID) ==
    [Message |-> message, Thread |-> <<>>, ChannelID |-> channelID,
     CurrentUser |-> Nil, UserMapping |-> EmptyCache]

\* lines 41-51: the url argument and its parse
Handle(u) ==
    /\ pc = "idle"
    /\ url' = u
    /\ calls' = <<>>
    /\ IF u = ""
         THEN /\ response' = Some(NewToolResultError("missing required argument 'url'"))
              /\ pc' = "done"
              /\ UNCHANGED parsedURL
         ELSE LET p == Parse(u)
              IN  IF ~IsNil(p.err)
                    THEN /\ response' = Some(handleError(p.err))
                         /\ pc' = "done"
                         /\ UNCHANGED parsedURL
                    ELSE /\ parsedURL' = p.url
                         /\ pc' = "GetMessage"
                         /\ UNCHANGED response
    /\ tool' = "read_message"
    /\ UNCHANGED <<userCache, result, locals, procs, seqLog, arguments, applyVars>>

\* lines 53-57: the primary fetch
FetchMessage ==
    /\ pc = "GetMessage"
    /\ LET parsed == Deref(parsedURL) IN
       \E history \in HistoryReplies(parsed.Timestamp) :
         LET r == GetMessage(history, parsed.ChannelID, parsed.Timestamp) IN
         /\ calls' = Append(calls, Call("GetMessage", parsed.ChannelID, parsed.Timestamp, r.err))
         /\ IF ~IsNil(r.err)
              THEN /\ response' = Some(handleError(r.err))
                   /\ pc' = "done"
                   /\ UNCHANGED locals
              ELSE /\ locals' = [locals EXCEPT !.message = r.message]
                   /\ pc' = "resolveMessage"
                   /\ UNCHANGED response
    /\ UNCHANGED <<userCache, url, parsedURL, result, procs, seqLog, requestVars, applyVars>>

\* lines 59-72: the author of the primary message, the result, the thread
\* decision
ResolveMessageAuthor ==
    /\ pc = "resolveMessage"
    /\ LET parsed  == Deref(parsedURL)
           message == Deref(locals.message)
       IN  \E reply \in DirectoryReplies(message.User) :
             LET r   == resolveUserForMessage(userCache, message, reply)
                 res == NewResult(r.msg, parsed.ChannelID)
             IN  /\ userCache' = r.cache
                 /\ calls' = IF r.called THEN Append(calls, Call("GetUserInfo", message.User, "", r.err))
                             ELSE calls
                 /\ result' = Some(res)
                 /\ IF shouldFetchThread(parsed, r.msg)
                      THEN /\ pc' = "GetThread"
                           /\ locals' = [locals EXCEPT !.message = Some(r.msg)]
                      ELSE /\ pc' = "buildUserMapping"
                           /\ locals' = [locals EXCEPT !.message = Some(r.msg),
                                                       !.ids = mentionedUserIDs(res)]
    /\ UNCHANGED <<url, parsedURL, response, procs, seqLog, requestVars, applyVars>>

\* lines 74-90: the anchor, the thread fetch, the partial result
FetchThread ==
    /\ pc = "GetThread"
    /\ LET parsed   == Deref(parsedURL)
           threadTS == threadAnchor(parsed, Deref(locals.message))
       IN  \E pages \in PageStreams(MaxPages) :
             LET r == GetThread(pages, parsed.ChannelID, threadTS) IN
             /\ calls' = Append(calls, CallReturning("GetThread", parsed.ChannelID, threadTS,
                                                     r.err, r.requests))
             /\ IF ~IsNil(r.err)
                  THEN /\ response' = Some(handlePartialResult(Deref(result), r.err))
                       /\ pc' = "done"
                       /\ UNCHANGED locals
                  ELSE /\ locals' = [locals EXCEPT !.thread = r.thread, !.i = 1]
                       /\ pc' = "resolveThread"
                       /\ UNCHANGED response
    /\ UNCHANGED <<userCache, url, parsedURL, result, procs, seqLog, requestVars, applyVars>>

\* lines 92-97: one turn of the loop over the thread, and the assignment of
\* the thread to the result after the last turn
ResolveThreadAuthor ==
    /\ pc = "resolveThread"
    /\ LET msg == locals.thread[locals.i] IN
       \E reply \in DirectoryReplies(msg.User) :
         LET r      == resolveUserForMessage(userCache, msg, reply)
             thread == [locals.thread EXCEPT ![locals.i] = r.msg]
         IN  /\ userCache' = r.cache
             /\ calls' = IF r.called THEN Append(calls, Call("GetUserInfo", msg.User, "", r.err))
                         ELSE calls
             /\ IF locals.i < Len(thread)
                  THEN /\ locals' = [locals EXCEPT !.thread = thread, !.i = locals.i + 1]
                       /\ UNCHANGED <<pc, result>>
                  ELSE /\ result' = Some([Deref(result) EXCEPT !.Thread = thread])
                       /\ locals' = [locals EXCEPT !.thread = thread, !.i = locals.i + 1,
                                                   !.ids = mentionedUserIDs(Deref(result'))]
                       /\ pc' = "buildUserMapping"
    /\ UNCHANGED <<url, parsedURL, response, procs, seqLog, requestVars, applyVars>>

\* lines 254-265: one turn of the loop over the mentioned ids (a Go map is
\* ranged over in any order)
ResolveMention ==
    /\ pc = "buildUserMapping"
    /\ \E userID \in locals.ids :
         \E reply \in DirectoryReplies(userID) :
           LET r == GetUserInfo(userCache, userID, reply) IN
           /\ userCache' = r.cache
           /\ calls' = Append(calls, Call("GetUserInfo", userID, "", r.err))
           /\ locals' = [locals EXCEPT
                           !.ids = @ \ {userID},
                           !.mapping = IF IsNil(r.err) /\ ~IsNil(r.info)
                                         THEN CacheStore(@, userID, Deref(r.info))
                                         ELSE @]
    /\ UNCHANGED <<pc, url, parsedURL, result, response, procs, seqLog, requestVars, applyVars>>

\* lines 100-104 and 267-272: the mapping is attached and the result
\* returned
Respond ==
    /\ pc = "buildUserMapping"
    /\ locals.ids = {}
    /\ result' = Some([Deref(result) EXCEPT !.UserMapping = locals.mapping])
    /\ response' = Some(successResult(Deref(result')))
    /\ pc' = "done"
    /\ UNCHANGED <<userCache, url, parsedURL, locals, calls, procs, seqLog, requestVars, applyVars>>

\* the call is over; only the cache outlives it
Return ==
    /\ pc = "done"
    /\ pc' = "idle"
    /\ url' = ""
    /\ parsedURL' = Nil
    /\ result' = Nil
    /\ locals' = NoLocals
    /\ calls' = <<>>
    /\ response' = Nil
    /\ tool' = ""
    /\ arguments' = NoArguments
    /\ UNCHANGED <<userCache, procs, seqLog, applyVars>>

-----------------------------------------------------------------------------
(* Tool arguments: request.Params.Arguments is a map[string]interface{}    *)

\* a decoded argument value with its dynamic type; a float64 is mant * 10^exp
StringValue(str) == [type |-> "string", s |-> str, mant |-> 0, exp |-> 0]

Float64Value(m, e) == [type |-> "float64", s |-> "", mant |-> m, exp |-> e]

IntValue(n) == [type |-> "int", s |-> "", mant |-> n, exp |-> 0]

BoolValue(b) == [type |-> "bool", s |-> "", mant |-> IF b THEN 1 ELSE 0, exp |-> 0]

\* the largest and the smallest int (32 bits wide, as GOARCH=386 and arm
\* build it; the 64-bit builds behave alike at their own extremes)
MaxInt == 2147483647

MinInt == -MaxInt - 1

\* exponent of the float64 inputs that no int can hold
HugeExp == 19

\* Go's int(v) of a float64: the fraction is discarded (truncation towards
\* zero); when the value is outside the range of int the result is
\* implementation-dependent (amd64 and 386 give the smallest int, arm
\* and arm64 saturate), hence a set of outcomes
Float64ToInt(v) ==
    IF v.exp = -1 THEN {IF v.mant >= 0 THEN v.mant \div 10 ELSE -((-v.mant) \div 10)}
    ELSE IF v.exp = 0 \/ v.mant = 0 THEN {v.mant}
    ELSE {MinInt, IF v.mant > 0 THEN MaxInt ELSE MinInt}

\* a value that is not a number is replaced by the default
NumberArgument_DefaultOnOther(args, key, default) ==
    IF key \notin DOMAIN args THEN {default}
    ELSE IF args[key].type = "float64" THEN Float64ToInt(args[key])
    ELSE IF args[key].type = "int" THEN {args[key].mant}
    ELSE {default}

\* the type switch on an optional numeric argument: the values the local
\* can take, none when the argument is present and not a number
NumberArgument(args, key, default) ==
    IF key \notin DOMAIN args THEN {default}
    ELSE IF args[key].type = "float64" THEN Float64ToInt(args[key])
    ELSE IF args[key].type = "int" THEN {args[key].mant}
    ELSE {}

\* an optional string argument: "" when absent
StringArgument(args, key) == IF key \in DOMAIN args THEN args[key].s ELSE ""

IsStringOrAbsent(args, key) == key \notin DOMAIN args \/ args[key].type = "string"

\* the range check that follows the type switch
ClampLow(n, lo) == IF n < lo THEN lo ELSE n

ClampHigh(n, hi) == IF n > hi THEN hi ELSE n

Clamp(n, lo, hi) == ClampHigh(ClampLow(n, lo), hi)

\* the error does not say which argument is wrong
Reject_Unnamed(text) ==
    /\ response' = Some(NewToolResultError("invalid arguments"))
    /\ pc' = "done"
    /\ UNCHANGED locals

\* an argument error: the call returns before any client call
Reject(text) ==
    /\ response' = Some(NewToolResultError(text))
    /\ pc' = "done"
    /\ UNCHANGED locals

-----------------------------------------------------------------------------
(* The client interface as the list and search handlers see it             *)

ChannelID == "C01234567"

\* errors GetChannelHistory can return: the classified kinds and an
\* unclassified one
ChannelHistoryErrors ==
    {NewSlackError(c, "mock error") :
        c \in {ErrCodeRateLimited, ErrCodeInvalidToken, ErrCodeChannelNotFound,
               ErrCodeNotInChannel, ErrCodePermissionDenied, "slack_error"}}

\* messages of a channel page
ChannelMessages ==
    {Message("U1", "cc <@U2> and <@U2>", "1355517523.000008", "", 0),
     Message("", "joined <@U1>", OtherTimestamp, "", 0)}

RECURSIVE SeqsOfLen(_, _)
\* the sequences of n elements of S
SeqsOfLen(S, n) ==
    IF n = 0 THEN {<<>>} ELSE {Append(q, x) : q \in SeqsOfLen(S, n - 1), x \in S}

\* what GetChannelHistory can return: an error, or a page of at most
\* MaxMessages messages with a hasMore flag that is the remote's, whatever
\* the page holds
ChannelHistoryReplies ==
    {[messages |-> <<>>, hasMore |-> FALSE, err |-> e] : e \in ChannelHistoryErrors}
    \cup {[messages |-> ms, hasMore |-> h, err |-> Nil] :
            ms \in UNION {SeqsOfLen(ChannelMessages, n) : n \in 0..MaxMessages},
            h \in BOOLEAN}

-----------------------------------------------------------------------------
(* internal/tools/list_channel_messages.go *)

DefaultLimit == 100

MinLimit == 1

MaxLimit == 200

\* json.Marshal of a ListChannelMessagesResult
MarshalListResult(r) ==
    [k \in {"messages", "channel_id", "has_more"}
           \cup (IF ~IsNil(r.CurrentUser) THEN {"current_user"} ELSE {})
           \cup (IF DOMAIN r.UserMapping # {} THEN {"user_mapping"} ELSE {}) |->
        CASE k = "messages" -> [i \in 1..Len(r.Messages) |-> MarshalMessage(r.Messages[i])]
          [] k = "channel_id" -> <<r.ChannelID>>
          [] k = "has_more" -> <<r.HasMore>>
          [] k = "current_user" -> r.CurrentUser
          [] k = "user_mapping" -> <<r.UserMapping>>]

listHandleError(err) ==
    IF isSlackErrorCode(err, ErrCodeRateLimited)
      THEN NewToolResultError("Rate limit exceeded. Slack limits API requests to approximately 1 per minute for non-marketplace apps. Please wait and try again.")
    ELSE IF isSlackErrorCode(err, ErrCodeInvalidToken)
      THEN NewToolResultError("Authentication failed. Please check that SLACK_BOT_TOKEN is valid and not expired.")
    ELSE IF isSlackErrorCode(err, ErrCodeChannelNotFound)
      THEN NewToolResultError("Channel not found. The channel may have been deleted, or the channel_id is incorrect.")
    ELSE IF isSlackErrorCode(err, ErrCodeNotInChannel)
      THEN NewToolResultError("The bot is not a member of this channel. Please invite the bot to the channel first.")
    ELSE IF isSlackErrorCode(err, ErrCodePermissionDenied)
      THEN NewToolResultError("Permission denied. The bot may lack required scopes or the channel is archived.")
    ELSE NewToolResultError("Failed to list channel messages: " \o Deref(err).Message)

listSuccessResult(res) == NewToolResultText(MarshalListResult(res), "")

\* the authors of the messages are collected with the mentioned ids
listMentionedUserIDs_WithAuthors(messages) ==
    ({messages[i].User : i \in 1..Len(messages)} \ {""})
    \cup UNION {Range(ExtractMentions(messages[i].Text)) : i \in 1..Len(messages)}

\* the first loop of buildUserMapping: the ids mentioned in the messages
listMentionedUserIDs(messages) ==
    UNION {Range(ExtractMentions(messages[i].Text)) : i \in 1..Len(messages)}

\* has_more is recomputed from the page
NewListResult_HasMoreFromCount(messages, channelID, hasMore) ==
    [Messages |-> messages, ChannelID |-> channelID, HasMore |-> Len(messages) > 0,
     CurrentUser |-> Nil, UserMapping |-> EmptyCache]

NewListResult(messages, channelID, hasMore) ==
    [Messages |-> messages, ChannelID |-> channelID, HasMore |-> hasMore,
     CurrentUser |-> Nil, UserMapping |-> EmptyCache]

\* the locals of Handle once the arguments are read
ListLocals(channelID, limit, oldest, latest) ==
    [channelID |-> channelID, limit |-> limit, oldest |-> oldest, latest |-> latest,
     messages |-> <<>>, hasMore |-> FALSE, i |-> 0, ids |-> {}, mapping |-> EmptyCache]

\* argument maps of list_channel_messages calls
LimitInputs ==
    {IntValue(-10), IntValue(150), Float64Value(0, 0), Float64Value(5, -1), Float64Value(1, 0),
     Float64Value(15, -1), Float64Value(200, 0), Float64Value(201, 0), Float64Value(500, 0),
     Float64Value(1, HugeExp), StringValue("10"), BoolValue(TRUE)}

ListArgumentInputs ==
    {NoArguments,
     "channel_id" :> StringValue(""),
     "channel_id" :> Float64Value(5, 0),
     "limit" :> Float64Value(10, 0),
     "channel_id" :> StringValue(ChannelID),
     ("channel_id" :> StringValue(ChannelID)) @@ ("oldest" :> StringValue(OtherTimestamp))
         @@ ("latest" :> StringValue("1355517523.000008")),
     ("channel_id" :> StringValue(ChannelID)) @@ ("oldest" :> Float64Value(1355517000, 0)),
     ("channel_id" :> StringValue(ChannelID)) @@ ("latest" :> BoolValue(FALSE))}
    \cup {("channel_id" :> StringValue(ChannelID)) @@ ("limit" :> v) : v \in LimitInputs}

\* lines 40-94: the arguments
ListHandle(args) ==
    /\ pc = "idle"
    /\ tool' = "list_channel_messages"
    /\ arguments' = args
    /\ calls' = <<>>
    /\ IF "channel_id" \notin DOMAIN args
         THEN Reject("missing required argument 'channel_id'")
       ELSE IF args["channel_id"].type # "string"
         THEN Reject("argument 'channel_id' must be a string")
       ELSE IF args["channel_id"].s = ""
         THEN Reject("argument 'channel_id' cannot be empty")
       ELSE IF NumberArgument(args, "limit", DefaultLimit) = {}
         THEN Reject("argument 'limit' must be a number")
       ELSE IF ~IsStringOrAbsent(args, "oldest")
         THEN Reject("argument 'oldest' must be a string (Unix timestamp)")
       ELSE IF ~IsStringOrAbsent(args, "latest")
         THEN Reject("argument 'latest' must be a string (Unix timestamp)")
       ELSE \E limit \in NumberArgument(args, "limit", DefaultLimit) :
              /\ locals' = ListLocals(args["channel_id"].s, Clamp(limit, MinLimit, MaxLimit),
                                      StringArgument(args, "oldest"), StringArgument(args, "latest"))
              /\ pc' = "GetChannelHistory"
              /\ UNCHANGED response
    /\ UNCHANGED <<userCache, url, parsedURL, result, procs, seqLog, applyVars>>

\* lines 107-115 up to the second loop of buildUserMapping: the authors are
\* resolved, the result is built, the mentioned ids are collected
ListAuthorsResolved(messages) ==
    /\ result' = Some(NewListResult(messages, locals.channelID, locals'.hasMore))
    /\ pc' = "listBuildUserMapping"

\* the primary fetch is issued a second time when its first call fails
FetchChannelHistory_Retrying ==
    /\ pc = "GetChannelHistory"
    /\ \E reply \in ChannelHistoryReplies :
         /\ calls' = Append(calls, CallReturning("GetChannelHistory", locals.channelID,
                                                 <<locals.limit, locals.oldest, locals.latest>>,
                                                 reply.err, <<reply.messages, reply.hasMore>>))
         /\ IF ~IsNil(reply.err) /\ Len(calls) = 0
              THEN UNCHANGED <<pc, locals, result, response>>
              ELSE IF ~IsNil(reply.err)
              THEN /\ response' = Some(listHandleError(reply.err))
                   /\ pc' = "done"
                   /\ UNCHANGED <<locals, result>>
              ELSE /\ locals' = [locals EXCEPT !.messages = reply.messages,
                                               !.hasMore = reply.hasMore,
                                               !.i = 1,
                                               !.ids = IF Len(reply.messages) = 0 THEN {} ELSE @]
                   /\ IF Len(reply.messages) = 0
                        THEN ListAuthorsResolved(reply.messages)
                        ELSE pc' = "listResolveUsers" /\ UNCHANGED result
                   /\ UNCHANGED response
    /\ UNCHANGED <<userCache, url, parsedURL, procs, seqLog, requestVars, applyVars>>

\* lines 96-100: the primary fetch
FetchChannelHistory ==
    /\ pc = "GetChannelHistory"
    /\ \E reply \in ChannelHistoryReplies :
         /\ calls' = Append(calls, CallReturning("GetChannelHistory", locals.channelID,
                                                 <<locals.limit, locals.oldest, locals.latest>>,
                                                 reply.err, <<reply.messages, reply.hasMore>>))
         /\ IF ~IsNil(reply.err)
              THEN /\ response' = Some(listHandleError(reply.err))
                   /\ pc' = "done"
                   /\ UNCHANGED <<locals, result>>
              ELSE /\ locals' = [locals EXCEPT !.messages = reply.messages,
                                               !.hasMore = reply.hasMore,
                                               !.i = 1,
                                               !.ids = IF Len(reply.messages) = 0 THEN {} ELSE @]
                   /\ IF Len(reply.messages) = 0
                        THEN ListAuthorsResolved(reply.messages)
                        ELSE pc' = "listResolveUsers" /\ UNCHANGED result
                   /\ UNCHANGED response
    /\ UNCHANGED <<userCache, url, parsedURL, procs, seqLog, requestVars, applyVars>>

\* lines 102-105: one turn of the loop over the messages; after the last
\* turn, lines 107-115
ListResolveAuthor ==
    /\ pc = "listResolveUsers"
    /\ \E reply \in DirectoryReplies(locals.messages[locals.i].User) :
         /\ userCache' = resolveUserForMessage(userCache, locals.messages[locals.i], reply).cache
         /\ calls' = IF resolveUserForMessage(userCache, locals.messages[locals.i], reply).called
                       THEN Append(calls, Call("GetUserInfo", locals.messages[locals.i].User, "",
                                               resolveUserForMessage(userCache, locals.messages[locals.i], reply).err))
                       ELSE calls
         /\ locals' = [locals EXCEPT
                         !.messages[locals.i] = resolveUserForMessage(userCache, locals.messages[locals.i], reply).msg,
                         !.i = @ + 1,
                         !.ids = IF locals.i < Len(locals.messages) THEN @
                                 ELSE listMentionedUserIDs(locals.messages)]
         /\ IF locals.i < Len(locals.messages)
              THEN UNCHANGED <<pc, result>>
              ELSE ListAuthorsResolved(locals'.messages)
    /\ UNCHANGED <<url, parsedURL, response, procs, seqLog, requestVars, applyVars>>

\* lines 236-247: one turn of the loop over the mentioned ids (a Go map is
\* ranged over in any order)
ListResolveMention ==
    /\ pc = "listBuildUserMapping"
    /\ \E userID \in locals.ids :
         \E reply \in DirectoryReplies(userID) :
           /\ userCache' = GetUserInfo(userCache, userID, reply).cache
           /\ calls' = Append(calls, Call("GetUserInfo", userID, "", GetUserInfo(userCache, userID, reply).err))
           /\ locals' = [locals EXCEPT
                           !.ids = @ \ {userID},
                           !.mapping = IF /\ IsNil(GetUserInfo(userCache, userID, reply).err)
                                          /\ ~IsNil(GetUserInfo(userCache, userID, reply).info)
                                         THEN CacheStore(@, userID, Deref(GetUserInfo(userCache, userID, reply).info))
                                         ELSE @]
    /\ UNCHANGED <<pc, url, parsedURL, result, response, procs, seqLog, requestVars, applyVars>>

\* lines 249-254 and 115-125: the mapping is attached, the current user is
\* fetched and attached when the fetch gives one, the result is returned
ListRespond ==
    /\ pc = "listBuildUserMapping"
    /\ locals.ids = {}
    /\ \E auth \in AuthTestReplies :
         \E reply \in DirectoryReplies(auth.UserID) :
           /\ userCache' = GetCurrentUser(userCache, auth, reply).cache
           /\ calls' = Append(calls, Call("GetCurrentUser", "", "", GetCurrentUser(userCache, auth, reply).err))
           /\ result' = Some([Deref(result) EXCEPT
                                !.UserMapping = locals.mapping,
                                !.CurrentUser = IF IsNil(GetCurrentUser(userCache, auth, reply).err)
                                                  THEN GetCurrentUser(userCache, auth, reply).info
                                                  ELSE Nil])
    /\ response' = Some(listSuccessResult(Deref(result')))
    /\ pc' = "done"
    /\ UNCHANGED <<url, parsedURL, locals, procs, seqLog, requestVars, applyVars>>

-----------------------------------------------------------------------------
(* internal/tools/search_messages.go *)

DefaultCount == 20

MinCount == 1

MaxCount == 100

\* the code of the error the search path fails with when no user token is
\* configured, and its predicate
ErrCodeUserTokenNotConfigured == "user_token_not_configured"

IsUserTokenNotConfigured(err) == isSlackErrorCode(err, ErrCodeUserTokenNotConfigured)

SearchMatch(channelID, channelName, user, userName, text, ts, permalink) ==
    [ChannelID |-> channelID, ChannelName |-> channelName, User |-> user, UserName |-> userName,
     DisplayName |-> "", RealName |-> "", Text |-> text, Timestamp |-> ts, Permalink |-> permalink]

\* json.Marshal of a SearchMatch
MarshalMatch(m) ==
    [k \in {"channel_id", "channel_name", "user", "text", "timestamp", "permalink"}
           \cup (IF m.UserName # "" THEN {"user_name"} ELSE {})
           \cup (IF m.DisplayName # "" THEN {"display_name"} ELSE {})
           \cup (IF m.RealName # "" THEN {"real_name"} ELSE {}) |->
        CASE k = "channel_id" -> m.ChannelID
          [] k = "channel_name" -> m.ChannelName
          [] k = "user" -> m.User
          [] k = "text" -> m.Text
          [] k = "timestamp" -> m.Timestamp
          [] k = "permalink" -> m.Permalink
          [] k = "user_name" -> m.UserName
          [] k = "display_name" -> m.DisplayName
          [] k = "real_name" -> m.RealName]

\* json.Marshal of a SearchMessagesResult
MarshalSearchResult(r) ==
    [k \in {"query", "total", "matches"}
           \cup (IF ~IsNil(r.CurrentUser) THEN {"current_user"} ELSE {}) |->
        CASE k = "query" -> <<r.Query>>
          [] k = "total" -> <<r.Total>>
          [] k = "matches" -> [i \in 1..Len(r.Matches) |-> MarshalMatch(r.Matches[i])]
          [] k = "current_user" -> r.CurrentUser]

\* every error is reported with the generic text
searchHandleError_Generic(err) ==
    NewToolResultError("Failed to search messages: " \o Deref(err).Message)

searchHandleError(err) ==
    IF IsUserTokenNotConfigured(err)
      THEN NewToolResultError("SLACK_USER_TOKEN not configured. The search_messages tool requires a user token (xoxp-) with the search:read scope. Please set the SLACK_USER_TOKEN environment variable.")
    ELSE IF isSlackErrorCode(err, ErrCodeRateLimited)
      THEN NewToolResultError("Rate limit exceeded. Slack limits API requests. Please wait and try again.")
    ELSE IF isSlackErrorCode(err, ErrCodeInvalidToken)
      THEN NewToolResultError("Authentication failed. Please check that SLACK_USER_TOKEN is valid and not expired.")
    ELSE IF isSlackErrorCode(err, ErrCodePermissionDenied)
      THEN NewToolResultError("Permission denied. The user token may lack the search:read scope.")
    ELSE NewToolResultError("Failed to search messages: " \o Deref(err).Message)

searchSuccessResult(res) == NewToolResultText(MarshalSearchResult(res), "")

\* resolveUserForMatch against the cache: the match with its name fields
\* filled in when the lookup gives an identity, the cache after the lookup,
\* and whether GetUserInfo was called
resolveUserForMatch(cache, match, reply) ==
    IF match.User = "" THEN [match |-> match, cache |-> cache, called |-> FALSE, err |-> Nil]
    ELSE [match  |-> IF ~IsNil(GetUserInfo(cache, match.User, reply).err)
                        \/ IsNil(GetUserInfo(cache, match.User, reply).info)
                       THEN match
                       ELSE [match EXCEPT
                               !.UserName = Deref(GetUserInfo(cache, match.User, reply).info).Name,
                               !.DisplayName = Deref(GetUserInfo(cache, match.User, reply).info).DisplayName,
                               !.RealName = Deref(GetUserInfo(cache, match.User, reply).info).RealName],
          cache  |-> GetUserInfo(cache, match.User, reply).cache,
          called |-> TRUE,
          err    |-> GetUserInfo(cache, match.User, reply).err]

\* any string is accepted as the sort order
SortArgument_AnyString(args) ==
    IF "sort" \in DOMAIN args /\ args["sort"].type = "string" THEN args["sort"].s ELSE "score"

\* lines 76-86: the sort argument
SortArgument(args) ==
    IF "sort" \in DOMAIN args /\ args["sort"].type = "string"
       /\ (args["sort"].s = "score" \/ args["sort"].s = "timestamp")
      THEN args["sort"].s
      ELSE "score"

NewSearchResult(query, total, matches) ==
    [Query |-> query, Total |-> total, Matches |-> matches, CurrentUser |-> Nil]

\* the locals of Handle once the arguments are read
SearchLocals(query, count, sort) ==
    [query |-> query, count |-> count, sort |-> sort, matches |-> <<>>, total |-> 0, i |-> 0]

\* errors SearchMessages can return
SearchErrors ==
    {NewSlackError(c, "mock error") :
        c \in {ErrCodeUserTokenNotConfigured, ErrCodeRateLimited, ErrCodeInvalidToken,
               ErrCodePermissionDenied, "slack_error"}}

\* matches of a search page; the search API names the author of some
SearchMatches ==
    {SearchMatch(ChannelID, "general", "U1", "alice.search", "deploy <@U2>", "1355517523.000008",
                 "https://ws.slack.com/archives/C01234567/p1355517523000008"),
     SearchMatch("C7", "random", "", "", "deploy done", OtherTimestamp,
                 "https://ws.slack.com/archives/C7/p1355517000000001")}

\* how many more messages match than the page returns
MoreMatches == 5

\* what SearchMessages can return: an error, or a page of at most
\* MaxMessages matches with the total number of matching messages
SearchReplies ==
    {[matches |-> <<>>, total |-> 0, err |-> e] : e \in SearchErrors}
    \cup {[matches |-> ms, total |-> Len(ms) + more, err |-> Nil] :
            ms \in UNION {SeqsOfLen(SearchMatches, n) : n \in 0..MaxMessages},
            more \in {0, MoreMatches}}

\* argument maps of search_messages calls
CountInputs ==
    {IntValue(-10), IntValue(50), Float64Value(0, 0), Float64Value(5, -1), Float64Value(1, 0),
     Float64Value(995, -1), Float64Value(100, 0), Float64Value(101, 0), Float64Value(500, 0),
     Float64Value(1, HugeExp), StringValue("10"), BoolValue(TRUE)}

SortInputs ==
    {StringValue("score"), StringValue("timestamp"), StringValue("bogus"), StringValue(""),
     StringValue("Timestamp"), Float64Value(1, 0), BoolValue(TRUE)}

SearchArgumentInputs ==
    {NoArguments,
     "query" :> StringValue(""),
     "query" :> Float64Value(5, 0),
     "count" :> Float64Value(10, 0),
     "query" :> StringValue("deploy"),
     ("query" :> StringValue("deploy")) @@ ("count" :> StringValue("10")) @@ ("sort" :> StringValue("timestamp")),
     ("query" :> StringValue("deploy")) @@ ("count" :> Float64Value(500, 0)) @@ ("sort" :> StringValue("timestamp"))}
    \cup {("query" :> StringValue("deploy")) @@ ("count" :> v) : v \in CountInputs}
    \cup {("query" :> StringValue("deploy")) @@ ("sort" :> v) : v \in SortInputs}

\* lines 40-86: the arguments
SearchHandle(args) ==
    /\ pc = "idle"
    /\ tool' = "search_messages"
    /\ arguments' = args
    /\ calls' = <<>>
    /\ IF "query" \notin DOMAIN args
         THEN Reject("missing required argument 'query'")
       ELSE IF args["query"].type # "string"
         THEN Reject("argument 'query' must be a string")
       ELSE IF args["query"].s = ""
         THEN Reject("argument 'query' cannot be empty")
       ELSE IF NumberArgument(args, "count", DefaultCount) = {}
         THEN Reject("argument 'count' must be a number")
       ELSE \E count \in NumberArgument(args, "count", DefaultCount) :
              /\ locals' = SearchLocals(args["query"].s, Clamp(count, MinCount, MaxCount),
                                        SortArgument(args))
              /\ pc' = "SearchMessages"
              /\ UNCHANGED response
    /\ UNCHANGED <<userCache, url, parsedURL, result, procs, seqLog, applyVars>>

\* lines 88-92: the primary fetch
FetchSearch ==
    /\ pc = "SearchMessages"
    /\ \E reply \in SearchReplies :
         /\ calls' = Append(calls, CallReturning("SearchMessages", locals.query,
                                                 <<locals.count, locals.sort>>,
                                                 reply.err, <<reply.matches, reply.total>>))
         /\ IF ~IsNil(reply.err)
              THEN /\ response' = Some(searchHandleError(reply.err))
                   /\ pc' = "done"
                   /\ UNCHANGED locals
              ELSE /\ locals' = [locals EXCEPT !.matches = reply.matches,
                                               !.total = reply.total,
                                               !.i = 1]
                   /\ pc' = IF Len(reply.matches) = 0 THEN "searchGetCurrentUser"
                            ELSE "searchResolveUsers"
                   /\ UNCHANGED response
    /\ UNCHANGED <<userCache, url, parsedURL, result, procs, seqLog, requestVars, applyVars>>

\* lines 94-97: one turn of the loop over the matches
SearchResolveAuthor ==
    /\ pc = "searchResolveUsers"
    /\ \E reply \in DirectoryReplies(locals.matches[locals.i].User) :
         /\ userCache' = resolveUserForMatch(userCache, locals.matches[locals.i], reply).cache
         /\ calls' = IF resolveUserForMatch(userCache, locals.matches[locals.i], reply).called
                       THEN Append(calls, Call("GetUserInfo", locals.matches[locals.i].User, "",
                                               resolveUserForMatch(userCache, locals.matches[locals.i], reply).err))
                       ELSE calls
         /\ locals' = [locals EXCEPT
                         !.matches[locals.i] = resolveUserForMatch(userCache, locals.matches[locals.i], reply).match,
                         !.i = @ + 1]
    /\ pc' = IF locals.i < Len(locals.matches) THEN pc ELSE "searchGetCurrentUser"
    /\ UNCHANGED <<url, parsedURL, result, response, procs, seqLog, requestVars, applyVars>>

\* lines 99-114: the result is built, the current user is fetched and
\* attached when the fetch gives one, the result is returned
SearchRespond ==
    /\ pc = "searchGetCurrentUser"
    /\ \E auth \in AuthTestReplies :
         \E reply \in DirectoryReplies(auth.UserID) :
           /\ userCache' = GetCurrentUser(userCache, auth, reply).cache
           /\ calls' = Append(calls, Call("GetCurrentUser", "", "", GetCurrentUser(userCache, auth, reply).err))
           /\ result' = Some([NewSearchResult(locals.query, locals.total, locals.matches) EXCEPT
                                !.CurrentUser = IF IsNil(GetCurrentUser(userCache, auth, reply).err)
                                                  THEN GetCurrentUser(userCache, auth, reply).info
                                                  ELSE Nil])
    /\ response' = Some(searchSuccessResult(Deref(result')))
    /\ pc' = "done"
    /\ UNCHANGED <<url, parsedURL, locals, procs, seqLog, requestVars, applyVars>>

-----------------------------------------------------------------------------
(* Client.GetUserInfo called one call after another *)

SeqUserIDs == {"", "U1", "U2"}

\* users.info replies, those of a cancelled and of a timed-out call included
SeqDirectoryReplies(id) ==
    DirectoryReplies(id)
    \cup {[user |-> Nil, err |-> TransportError("context canceled")],
          [user |-> Nil, err |-> TransportError("context deadline exceeded")]}

\* the log keeps the cache as the call found it
SeqGetUserInfo(userID) ==
    /\ Len(seqLog) < MaxSeqCalls
    /\ \E reply \in SeqDirectoryReplies(userID) :
         LET r == GetUserInfo(userCache, userID, reply) IN
         /\ userCache' = r.cache
         /\ seqLog' = Append(seqLog, [userID |-> userID, reply |-> reply, info |-> r.info,
                                      err |-> r.err, port |-> r.port, before |-> userCache])
    /\ UNCHANGED <<handlerVars, applyVars, procs>>

\* Client.GetCurrentUser called between the GetUserInfo calls: the log
\* keeps the auth.test reply too
SeqGetCurrentUser ==
    /\ Len(seqLog) < MaxSeqCalls
    /\ \E auth \in AuthTestReplies :
         \E reply \in SeqDirectoryReplies(auth.UserID) :
           LET r == GetCurrentUser(userCache, auth, reply) IN
           /\ userCache' = r.cache
           /\ seqLog' = Append(seqLog, [userID |-> auth.UserID, reply |-> reply, info |-> r.info,
                                        err |-> r.err, port |-> r.port, before |-> userCache,
                                        auth |-> auth])
    /\ UNCHANGED <<handlerVars, applyVars, procs>>

-----------------------------------------------------------------------------
(* Client.GetUserInfo called by concurrent tool calls sharing the client:  *)
(* the cache lookup, the directory call and the store are separate steps   *)

Procs == 1..NumProcs

IdleProc == [pc |-> "idle", userID |-> "", info |-> Nil, err |-> Nil]

\* the cache is not consulted
Lookup_SkipsCache(p, userID) ==
    /\ procs[p].pc = "idle"
    /\ procs' = [procs EXCEPT ![p] =
                   IF userID = ""
                     THEN [pc |-> "returned", userID |-> userID, info |-> Nil, err |-> Nil]
                     ELSE [pc |-> "port", userID |-> userID, info |-> Nil, err |-> Nil]]
    /\ UNCHANGED <<userCache, handlerVars, applyVars, seqLog>>

\* lines 148-156: the empty id, the cache lookup
Lookup(p, userID) ==
    /\ procs[p].pc = "idle"
    /\ procs' = [procs EXCEPT ![p] =
                   IF userID = ""
                     THEN [pc |-> "returned", userID |-> userID, info |-> Nil, err |-> Nil]
                   ELSE IF CacheHas(userCache, userID)
                     THEN [pc |-> "returned", userID |-> userID,
                           info |-> CacheLoad(userCache, userID), err |-> Nil]
                   ELSE [pc |-> "port", userID |-> userID, info |-> Nil, err |-> Nil]]
    /\ UNCHANGED <<userCache, handlerVars, applyVars, seqLog>>

\* lines 159-181: the directory answers
DirectoryReply(p) ==
    /\ procs[p].pc = "port"
    /\ \E reply \in DirectoryReplies(procs[p].userID) :
         LET r == FetchUserInfo(procs[p].userID, reply) IN
         procs' = [procs EXCEPT ![p] =
                     [pc |-> IF r.store THEN "store" ELSE "returned",
                      userID |-> procs[p].userID, info |-> r.info, err |-> r.err]]
    /\ UNCHANGED <<userCache, handlerVars, applyVars, seqLog>>

\* lines 174 and 184: the store
Store(p) ==
    /\ procs[p].pc = "store"
    /\ userCache' = CacheStore(userCache, procs[p].userID, Deref(procs[p].info))
    /\ procs' = [procs EXCEPT ![p].pc = "returned"]
    /\ UNCHANGED <<handlerVars, applyVars, seqLog>>

Finish(p) ==
    /\ procs[p].pc = "returned"
    /\ procs' = [procs EXCEPT ![p] = IdleProc]
    /\ UNCHANGED <<userCache, handlerVars, applyVars, seqLog>>

-----------------------------------------------------------------------------
(* Functions of the packages applied to arguments drawn from bounded sets *)

RECURSIVE Join(_)
\* strings.Join(parts, "")
Join(parts) == IF parts = <<>> THEN "" ELSE Head(parts) \o Join(Tail(parts))

\* the texts made of at most n of the given pieces
TextsOf(pieces, n) == UNION {{Join(ps) : ps \in SeqsOfLen(pieces, k)} : k \in 0..n}

NoFunctionRunning ==
    /\ userCache = EmptyCache
    /\ tool = ""
    /\ arguments = NoArguments
    /\ pc = "idle"
    /\ url = ""
    /\ parsedURL = Nil
    /\ result = Nil
    /\ locals = NoLocals
    /\ calls = <<>>
    /\ response = Nil
    /\ procs = [p \in Procs |-> IdleProc]
    /\ seqLog = <<>>

\* pieces of message texts: user mentions, a mention with a label, channel
\* and special mentions, a lowercase id, malformed mentions, plain text
MentionPieces ==
    {"<@U1>", "<@U2A>", "<@U1|al>", "<#C1>", "<!here>", "<@u3>", "<@U>", "<@U1", "<@W4>", " x "}

MentionTexts == TextsOf(MentionPieces, MaxPieces)

ApplyExtractMentions ==
    /\ IsNil(output)
    /\ input \in MentionTexts
    /\ output' = Some([fn |-> "ExtractMentions", slice |-> ExtractMentionsSlice(input)])
    /\ UNCHANGED <<userCache, handlerVars, procs, seqLog, input>>

InitMentions == NoFunctionRunning /\ input \in MentionTexts /\ output = Nil

SpecMentions == InitMentions /\ [][ApplyExtractMentions]_vars

\* the digits of URL timestamps: seconds and microseconds of 16-digit
\* timestamps, and strings that are too short, too long or not digits
SecondsDigits ==
    {"1355517523", "0000000000", "9999999999", "1234567890", "1700000000", "0123456789",
     "1000000001", "1355517524"}

MicrosDigits == {"000008", "000000", "999999", "123456", "100000", "000001", "012345", "000009"}

TimestampInputs ==
    {sec \o mic : sec \in SecondsDigits, mic \in MicrosDigits}
    \cup {"1", "123456789012345", "12345678901234567", "135551752300000a", "1355517523.00008"}

\* the URL of the message with the path timestamp digits
MessageURL(digits) == "https://ws.slack.com/archives/" \o ChannelID \o "/p" \o digits

ApplyConvertTimestamp ==
    /\ IsNil(output)
    /\ input \in TimestampInputs
    /\ output' = Some([fn |-> "convertTimestamp", ret |-> convertTimestamp(input)])
    /\ UNCHANGED <<userCache, handlerVars, procs, seqLog, input>>

ApplyParseOfTimestamp ==
    /\ IsNil(output)
    /\ input \in TimestampInputs
    /\ output' = Some([fn |-> "Parse", ret |-> Parse(MessageURL(input))])
    /\ UNCHANGED <<userCache, handlerVars, procs, seqLog, input>>

InitTimestamp == NoFunctionRunning /\ input \in TimestampInputs /\ output = Nil

NextTimestamp == ApplyConvertTimestamp \/ ApplyParseOfTimestamp

SpecTimestamp == InitTimestamp /\ [][NextTimestamp]_vars

\* a URL given by its pieces: scheme, separator, host, the path pieces, the
\* query parameters and the fragment
URLPieces(scheme, sep, host, prefix, channel, tsPrefix, digits, suffix, params, fragment) ==
    [scheme |-> scheme, sep |-> sep, host |-> host, prefix |-> prefix, channel |-> channel,
     tsPrefix |-> tsPrefix, digits |-> digits, suffix |-> suffix, params |-> params,
     fragment |-> fragment]

QueryParam(key, value) == [key |-> key, value |-> value]

RECURSIVE JoinParams(_)
\* key=value pairs joined by "&"
JoinParams(params) ==
    IF params = <<>> THEN ""
    ELSE Head(params).key \o "=" \o Head(params).value
         \o (IF Len(params) > 1 THEN "&" ELSE "") \o JoinParams(Tail(params))

URLOf(in) ==
    in.scheme \o in.sep \o in.host \o in.prefix \o in.channel \o in.tsPrefix \o in.digits
    \o in.suffix \o (IF in.params = <<>> THEN "" ELSE "?" \o JoinParams(in.params)) \o in.fragment

\* the query parameters of the inputs: thread_ts with a timestamp, with a
\* value of no timestamp format, empty, escaped, with a space written "+",
\* with a bad escape, with a semicolon, under an escaped key; other keys
QueryParams ==
    {QueryParam("thread_ts", "1355517523.000008"), QueryParam("thread_ts", "abc"),
     QueryParam("thread_ts", ""), QueryParam("thread_ts", "1355517523%2E000008"),
     QueryParam("thread_ts", "a+b"), QueryParam("thread_ts", "%zz"),
     QueryParam("thread_ts", "1;2"), QueryParam("thread%5Fts", "7"),
     QueryParam("cid", "C01234567"), QueryParam("extra", "param"), QueryParam("Thread_TS", "9")}

Fragments == {"", "#some-fragment", "#x?thread_ts=5"}

\* message URLs that parse, each with every query of at most MaxParams
\* parameters and every fragment
ThreadURLInputs ==
    {URLPieces(b[1], "://", b[2], "/archives/", b[3], "/p", b[4], "", ps, f) :
        b \in {<<"https", "ws.slack.com", "C01234567", "1355517523000008">>,
               <<"HTTPS", "a.b.slack.com", "G0AB", "135551752400000%39">>},
        ps \in UNION {SeqsOfLen(QueryParams, n) : n \in 0..MaxParams},
        f \in Fragments}

\* URLs without query made of right and wrong pieces, the empty string and
\* a string that is no URL
PlainURLInputs ==
    {URLPieces(sch, "://", h, pre, c, tp, d, suf, <<>>, "") :
        sch \in {"https", "HTTPS", "http", ""},
        h \in {"ws.slack.com", "slack.com", "ws.slack.com.evil.io", "ws.slack.com:443"},
        pre \in {"/archives/", "/archive/", "/"},
        c \in {"C01234567", "c01234567", "C0/EXTRA"},
        tp \in {"/p", "/", "/P"},
        d \in {"1355517523000008", "135551752300000", "13555175230000088", "135551752300000a"},
        suf \in {"", "/", "/extra"}}
    \cup {URLPieces("", "", "", pre, "", "", "", "", <<>>, "") : pre \in {"", "not-a-url"}}

ParserInputs == ThreadURLInputs \cup PlainURLInputs

ApplyParse ==
    /\ IsNil(output)
    /\ input \in ParserInputs
    /\ output' = Some([fn |-> "Parse", ret |-> Parse(URLOf(input))])
    /\ UNCHANGED <<userCache, handlerVars, procs, seqLog, input>>

InitParser == NoFunctionRunning /\ input \in ParserInputs /\ output = Nil

SpecParser == InitParser /\ [][ApplyParse]_vars

\* pieces of transport error texts: the keywords of wrapSlackError and
\* texts without keyword
ErrorPieces ==
    {"rate_limit", "ratelimited", "invalid_auth", "not_authed", "missing_scope", "token_expired",
     "channel_not_found", "not_in_channel", "access_denied", "is_archived", "message_not_found",
     "thread_not_found", "connection reset by peer", ": "}

\* the errors wrapSlackError is applied to: nil and the transport errors
ErrorInputs == {Nil} \cup {TransportError(t) : t \in TextsOf(ErrorPieces, MaxKeywords)}

ApplyWrapSlackError ==
    /\ IsNil(output)
    /\ input \in ErrorInputs
    /\ output' = Some([fn |-> "wrapSlackError", ret |-> wrapSlackError(input)])
    /\ UNCHANGED <<userCache, handlerVars, procs, seqLog, input>>

InitErrors == NoFunctionRunning /\ input \in ErrorInputs /\ output = Nil

SpecErrors == InitErrors /\ [][ApplyWrapSlackError]_vars

\* Client.GetThread step by step, input holding what the remote answers to
\* its successive conversations.replies requests: the loop state is the
\* cursor, allMessages and the cursors sent so far
ThreadLoopState(pc0, cursor, allMessages, sent, ret) ==
    [fn |-> "GetThread", pc |-> pc0, cursor |-> cursor, allMessages |-> allMessages,
     sent |-> sent, ret |-> ret]

\* lines 79-85: the parameters, allMessages and the cursor
ThreadStart ==
    /\ IsNil(output)
    /\ input \in PageStreams(MaxPages)
    /\ output' = Some(ThreadLoopState("loop", "", <<>>, <<>>, Nil))
    /\ UNCHANGED <<userCache, handlerVars, procs, seqLog, input>>

\* the page's messages replace those of the pages before
ThreadRequest_KeepsLastPage ==
    /\ ~IsNil(output)
    /\ Deref(output).fn = "GetThread"
    /\ Deref(output).pc = "loop"
    /\ LET st   == Deref(output)
           page == input[Len(st.sent) + 1]
           sent == Append(st.sent, st.cursor)
           all  == [k \in 1..Len(page.Messages) |-> convertMessage(page.Messages[k])]
       IN  output' =
             IF ~IsNil(page.err)
               THEN Some(ThreadLoopState("returned", st.cursor, st.allMessages, sent,
                                         Some([thread |-> <<>>, err |-> wrapSlackError(page.err)])))
             ELSE IF ~page.HasMore
               THEN Some(ThreadLoopState("after", st.cursor, all, sent, Nil))
             ELSE Some(ThreadLoopState("loop", page.NextCursor, all, sent, Nil))
    /\ UNCHANGED <<userCache, handlerVars, procs, seqLog, input>>

\* lines 87-103: one turn of the loop, a request with the cursor
ThreadRequest ==
    /\ ~IsNil(output)
    /\ Deref(output).fn = "GetThread"
    /\ Deref(output).pc = "loop"
    /\ LET st   == Deref(output)
           page == input[Len(st.sent) + 1]
           sent == Append(st.sent, st.cursor)
           all  == st.allMessages
                   \o [k \in 1..Len(page.Messages) |-> convertMessage(page.Messages[k])]
       IN  output' =
             IF ~IsNil(page.err)
               THEN Some(ThreadLoopState("returned", st.cursor, st.allMessages, sent,
                                         Some([thread |-> <<>>, err |-> wrapSlackError(page.err)])))
             ELSE IF ~page.HasMore
               THEN Some(ThreadLoopState("after", st.cursor, all, sent, Nil))
             ELSE Some(ThreadLoopState("loop", page.NextCursor, all, sent, Nil))
    /\ UNCHANGED <<userCache, handlerVars, procs, seqLog, input>>

\* lines 105-110: the empty thread, the return
ThreadReturn ==
    /\ ~IsNil(output)
    /\ Deref(output).fn = "GetThread"
    /\ Deref(output).pc = "after"
    /\ output' = Some([Deref(output) EXCEPT
                         !.pc = "returned",
                         !.ret = IF Len(Deref(output).allMessages) = 0
                                   THEN Some([thread |-> <<>>,
                                              err |-> NewSlackError(ErrCodeMessageNotFound,
                                                          "thread not found in channel " \o ChannelID
                                                          \o " with timestamp " \o OtherTimestamp)])
                                   ELSE Some([thread |-> Deref(output).allMessages, err |-> Nil])])
    /\ UNCHANGED <<userCache, handlerVars, procs, seqLog, input>>

InitThread == NoFunctionRunning /\ input \in PageStreams(MaxPages) /\ output = Nil

NextThread == ThreadStart \/ ThreadRequest \/ ThreadReturn

\* a GetThread call that has started goes on: the goroutine is scheduled
\* and every request gets its answer
SpecThread == InitThread /\ [][NextThread]_vars /\ WF_vars(NextThread)

-----------------------------------------------------------------------------
(* Specifications *)

Init ==
    /\ userCache = EmptyCache
    /\ tool = ""
    /\ arguments = NoArguments
    /\ pc = "idle"
    /\ url = ""
    /\ parsedURL = Nil
    /\ result = Nil
    /\ locals = NoLocals
    /\ calls = <<>>
    /\ response = Nil
    /\ procs = [p \in Procs |-> IdleProc]
    /\ seqLog = <<>>
    /\ input = ""
    /\ output = Nil

\* read_message calls, one at a time
Next ==
    \/ \E u \in URLInputs : Handle(u)
    \/ FetchMessage
    \/ ResolveMessageAuthor
    \/ FetchThread
    \/ ResolveThreadAuthor
    \/ ResolveMention
    \/ Respond
    \/ Return

Spec == Init /\ [][Next]_vars

\* sequential GetUserInfo calls
NextSeq == \E userID \in SeqUserIDs : SeqGetUserInfo(userID)

SpecSeq == Init /\ [][NextSeq]_vars

\* sequential GetCurrentUser calls, and GetUserInfo calls for the id
\* auth.test gives
NextCurrent ==
    \/ SeqGetCurrentUser
    \/ SeqGetUserInfo("U1")

SpecCurrent == Init /\ [][NextCurrent]_vars

\* concurrent GetUserInfo calls
NextConc ==
    \E p \in Procs :
      \/ \E userID \in SeqUserIDs : Lookup(p, userID)
      \/ DirectoryReply(p)
      \/ Store(p)
      \/ Finish(p)

SpecConc == Init /\ [][NextConc]_vars

\* list_channel_messages calls, one at a time
NextList ==
    \/ \E args \in ListArgumentInputs : ListHandle(args)
    \/ FetchChannelHistory
    \/ ListResolveAuthor
    \/ ListResolveMention
    \/ ListRespond
    \/ Return

SpecList == Init /\ [][NextList]_vars

\* search_messages calls, one at a time
NextSearch ==
    \/ \E args \in SearchArgumentInputs : SearchHandle(args)
    \/ FetchSearch
    \/ SearchResolveAuthor
    \/ SearchRespond
    \/ Return

SpecSearch == Init /\ [][NextSearch]_vars

\* calls of the three tools, one at a time
NextTools ==
    \/ \E u \in URLInputs : Handle(u)
    \/ FetchMessage
    \/ ResolveMessageAuthor
    \/ FetchThread
    \/ ResolveThreadAuthor
    \/ ResolveMention
    \/ Respond
    \/ \E args \in ListArgumentInputs : ListHandle(args)
    \/ FetchChannelHistory
    \/ ListResolveAuthor
    \/ ListResolveMention
    \/ ListRespond
    \/ \E args \in SearchArgumentInputs : SearchHandle(args)
    \/ FetchSearch
    \/ SearchResolveAuthor
    \/ SearchRespond
    \/ Return

SpecTools == Init /\ [][NextTools]_vars

-----------------------------------------------------------------------------
(* Properties of read_message (specification Spec) *)

Responded == pc = "done" /\ ~IsNil(response)

ResponseJSON == Deref(Deref(response).JSON)

CallsOf(op) == {i \in DOMAIN calls : calls[i].op = op}

FailedCallsOf(op) == {i \in CallsOf(op) : ~IsNil(calls[i].err)}

\* the thread decision as the claim words it: the URL's thread_ts, the reply count
WantsThread == Deref(parsedURL).ThreadTS # "" \/ Deref(locals.message).ReplyCount > 0

\* C1: once the primary message is fetched, GetThread is called exactly when
\* the URL carried a non-empty thread_ts or the message has replyCount > 0;
\* when neither holds it is never called and the response has no thread field.
C1_ThreadFetchedIffWanted ==
    ~IsNil(locals.message) =>
        /\ CallsOf("GetThread") # {} => WantsThread
        /\ Responded /\ WantsThread => CallsOf("GetThread") # {}
        /\ Responded /\ ~WantsThread =>
              /\ ~Deref(response).IsError
              /\ "thread" \notin DOMAIN ResponseJSON

C1_Witness ==
    /\ Responded
    /\ ~IsNil(locals.message)
    /\ Deref(parsedURL).ThreadTS = ""
    /\ Deref(locals.message).ReplyCount > 0
    /\ CallsOf("GetThread") # {}
    /\ "thread" \in DOMAIN ResponseJSON

\* C2: when the primary message is fetched but GetThread fails, the result is
\* a non-error result: the serialized envelope with the primary message and
\* no thread field, followed by a note naming the thread-fetch failure.
C2_ThreadFailureIsPartialResult ==
    (pc = "done" /\ FailedCallsOf("GetThread") # {}) =>
        /\ ~IsNil(response)
        /\ ~Deref(response).IsError
        /\ ~IsNil(Deref(response).JSON)
        /\ "message" \in DOMAIN ResponseJSON
        /\ ResponseJSON["message"] = <<MarshalMessage(Deref(locals.message))>>
        /\ "thread" \notin DOMAIN ResponseJSON
        /\ \A i \in FailedCallsOf("GetThread") :
              /\ HasPrefix(Deref(response).Text, "\n\nNote: Failed to fetch thread replies: ")
              /\ HasSuffix(Deref(response).Text, Deref(calls[i].err).Message)

C2_Witness ==
    /\ Responded
    /\ FailedCallsOf("GetThread") # {}
    /\ ~Deref(response).IsError
    /\ Deref(locals.message).Text = "cc <@U1> and <@U2>"

\* C3: the anchor passed to GetThread, with the channel id parsed from the
\* URL, is the URL's thread_ts if the URL had one and otherwise the timestamp
\* of the fetched message; the message's own fields never override the URL's.
C3_ThreadAnchor ==
    \A i \in CallsOf("GetThread") :
        /\ calls[i].a = Deref(parsedURL).ChannelID
        /\ calls[i].b = IF Deref(parsedURL).ThreadTS # ""
                          THEN Deref(parsedURL).ThreadTS
                          ELSE Deref(locals.message).Timestamp

C3_Witness ==
    /\ CallsOf("GetThread") # {}
    /\ Deref(parsedURL).ThreadTS = OtherTimestamp
    /\ Deref(locals.message).ThreadTS \notin {"", OtherTimestamp}
    /\ Deref(locals.message).Timestamp # Deref(parsedURL).Timestamp

\* the inputs of URLInputs that are not message URLs
InvalidURLInputs ==
    {"",
     "not-a-url",
     "http://ws.slack.com/archives/C01234567/p1355517523000008",
     "https://ws.slack.com/archives/C01234567/p13555175230"}

\* C4: read_message is fatal when the URL does not parse or GetMessage fails:
\* the result is an error result, GetMessage is not called for an unparsable
\* URL, and nothing is called after a failed GetMessage.
C4_FatalFailures ==
    /\ (pc # "idle" /\ url \in InvalidURLInputs) =>
          /\ Responded
          /\ Deref(response).IsError
          /\ calls = <<>>
    /\ FailedCallsOf("GetMessage") # {} =>
          /\ Responded
          /\ Deref(response).IsError
          /\ Len(calls) = 1

C4_Witness ==
    /\ Responded
    /\ FailedCallsOf("GetMessage") # {}
    /\ Deref(response).IsError
    /\ Len(calls) = 1

-----------------------------------------------------------------------------
(* Properties of the identity resolver, calls made one after another       *)
(* (specification SpecSeq)                                                 *)

\* C5: of two sequential GetUserInfo calls for the same non-empty id, the
\* first of which returned a value, the second returns that same value
\* whatever the directory would answer, and makes no directory call.
C5_ResolverIdempotent ==
    \A i, j \in DOMAIN seqLog :
        (/\ i < j
         /\ seqLog[i].userID = seqLog[j].userID
         /\ seqLog[i].userID # ""
         /\ IsNil(seqLog[i].err)) =>
            /\ seqLog[j].info = seqLog[i].info
            /\ IsNil(seqLog[j].err)
            /\ ~seqLog[j].port

C5_Witness ==
    \E i, j \in DOMAIN seqLog :
        /\ i < j
        /\ seqLog[i].userID = "U1"
        /\ seqLog[j].userID = "U1"
        /\ seqLog[i].port
        /\ IsNil(seqLog[i].err)
        /\ ~IsNil(seqLog[i].reply.user)
        /\ ~IsNil(seqLog[j].reply.user)
        /\ seqLog[j].reply # seqLog[i].reply
        /\ seqLog[j].info = seqLog[i].info

IsUserNotFound(reply) ==
    ~IsNil(reply.err) /\ Deref(reply.err).Message = "user_not_found"

\* C7: when the directory reports user-not-found for a non-empty id X,
\* GetUserInfo(X) returns without error a placeholder with id X, handle
\* "deleted_user" and isDeleted, and caches it: later resolves of X return
\* the placeholder without a directory call.
C7_DeletedUserPlaceholder ==
    \A i \in DOMAIN seqLog :
        (seqLog[i].port /\ IsUserNotFound(seqLog[i].reply)) =>
            LET X == seqLog[i].userID IN
            /\ IsNil(seqLog[i].err)
            /\ ~IsNil(seqLog[i].info)
            /\ Deref(seqLog[i].info).ID = X
            /\ Deref(seqLog[i].info).Name = "deleted_user"
            /\ Deref(seqLog[i].info).IsDeleted
            /\ X \in DOMAIN userCache
            /\ userCache[X] = Deref(seqLog[i].info)
            /\ \A j \in DOMAIN seqLog :
                  (j > i /\ seqLog[j].userID = X) =>
                      /\ ~seqLog[j].port
                      /\ IsNil(seqLog[j].err)
                      /\ seqLog[j].info = seqLog[i].info

C7_Witness ==
    \E i, j \in DOMAIN seqLog :
        /\ i < j
        /\ seqLog[i].userID = "U2"
        /\ seqLog[j].userID = "U2"
        /\ seqLog[i].port
        /\ IsUserNotFound(seqLog[i].reply)
        /\ ~IsUserNotFound(seqLog[j].reply)
        /\ Deref(seqLog[j].info).IsDeleted

\* C8: GetUserInfo with an empty id returns nil without error and without a
\* directory call; for a non-empty id it never returns a nil identity
\* without an error.
C8_NilOnlyForEmptyID ==
    \A i \in DOMAIN seqLog :
        /\ seqLog[i].userID = "" =>
              IsNil(seqLog[i].info) /\ IsNil(seqLog[i].err) /\ ~seqLog[i].port
        /\ seqLog[i].userID # "" =>
              ~(IsNil(seqLog[i].info) /\ IsNil(seqLog[i].err))

C8_Witness ==
    \E i, j, k \in DOMAIN seqLog :
        /\ seqLog[i].userID = ""
        /\ IsNil(seqLog[i].info)
        /\ seqLog[j].userID # ""
        /\ ~IsNil(seqLog[j].err)
        /\ seqLog[k].userID # ""
        /\ ~IsNil(seqLog[k].info)

-----------------------------------------------------------------------------
(* Properties of the identity cache under concurrent calls                 *)
(* (specification SpecConc)                                                *)

\* the calls for id that missed the cache and have not finished
InFlight(ps, id) == {p \in Procs : ps[p].userID = id /\ ps[p].pc \in {"port", "store"}}

\* C6 as claimed: once an entry for id has been stored it is never replaced
\* by a different identity.
C6_EntryNeverReplaced ==
    [][\A id \in DOMAIN userCache : userCache'[id] = userCache[id]]_vars

\* C6 as amended: an entry is replaced only by the store of a call that
\* missed the cache and is still in flight (the last writer wins); once an
\* entry exists and no such call is in flight the entry never changes and
\* no later call misses; a call that hits returns the stored identity.
C6_LastWriterWinsAmongMisses ==
    [][\A id \in DOMAIN userCache :
          /\ userCache'[id] # userCache[id] =>
                \E p \in InFlight(procs, id) :
                    /\ procs[p].pc = "store"
                    /\ procs'[p].pc = "returned"
                    /\ userCache'[id] = Deref(procs[p].info)
          /\ InFlight(procs, id) = {} =>
                /\ id \in DOMAIN userCache'
                /\ userCache'[id] = userCache[id]
                /\ InFlight(procs', id) = {}
          /\ \A p \in Procs :
                (procs[p].pc = "idle" /\ procs'[p].pc # "idle" /\ procs'[p].userID = id) =>
                    /\ procs'[p].pc = "returned"
                    /\ procs'[p].info = Some(userCache[id])
                    /\ userCache' = userCache]_vars

C6_Witness ==
    \E p \in Procs :
        /\ procs[p].pc = "store"
        /\ procs[p].userID \in DOMAIN userCache
        /\ userCache[procs[p].userID] # Deref(procs[p].info)

-----------------------------------------------------------------------------
(* Properties of the read_message envelope (specification Spec) *)

SuccessResponse == Responded /\ ~Deref(response).IsError

\* C9: a successful read_message response carries current_user whenever the
\* current-identity fetch gives a non-nil identity without error (and omits
\* it otherwise).
C9_CurrentUserAttached ==
    SuccessResponse =>
        \A auth \in AuthTestReplies : \A reply \in DirectoryReplies(auth.UserID) :
            LET r == GetCurrentUser(userCache, auth, reply) IN
            (IsNil(r.err) /\ ~IsNil(r.info)) =>
                /\ "current_user" \in DOMAIN ResponseJSON
                /\ ResponseJSON["current_user"] = r.info

\* the ids mentioned in the message texts of the response
ReturnedMentions ==
    Range(ExtractMentions(ResponseJSON["message"][1]["text"][1]))
    \cup (IF "thread" \in DOMAIN ResponseJSON
            THEN UNION {Range(ExtractMentions(ResponseJSON["thread"][i]["text"][1])) :
                          i \in DOMAIN ResponseJSON["thread"]}
            ELSE {})

\* C10: every non-error read_message response, the partial one included, has
\* a user_mapping entry for each id mentioned in the returned texts whose
\* resolution succeeds (an id the cache holds resolves without fail).
C10_MentionsMapped ==
    SuccessResponse =>
        \A id \in ReturnedMentions :
            id \in DOMAIN userCache =>
                /\ "user_mapping" \in DOMAIN ResponseJSON
                /\ id \in DOMAIN ResponseJSON["user_mapping"][1]
                /\ ResponseJSON["user_mapping"][1][id] = userCache[id]

-----------------------------------------------------------------------------
(* Properties of the three tools (specifications SpecList, SpecSearch and  *)
(* SpecTools)                                                              *)

\* the ids mentioned in the message texts of a list_channel_messages response
ListReturnedMentions ==
    UNION {Range(ExtractMentions(ResponseJSON["messages"][i]["text"][1])) :
             i \in DOMAIN ResponseJSON["messages"]}

MentionsOfResponse == IF tool = "read_message" THEN ReturnedMentions ELSE ListReturnedMentions

\* the user_mapping object of the response, empty when the key is omitted
ResponseMapping ==
    IF "user_mapping" \in DOMAIN ResponseJSON THEN ResponseJSON["user_mapping"][1] ELSE EmptyCache

\* the GetUserInfo calls the running call made for id, and the last of a
\* set of calls
ResolutionsOf(id) == {i \in CallsOf("GetUserInfo") : calls[i].a = id}

Last(S) == CHOOSE i \in S : \A j \in S : j <= i

\* C11: in a read_message or list_channel_messages response every key of
\* user_mapping is an id mentioned in the returned texts whose resolution
\* succeeded, and its value is the identity that resolution returned (the
\* one the cache holds); an id whose resolution failed is not a key; the
\* mapping is omitted rather than empty.
C11_MappingOnlyResolvedMentions ==
    (SuccessResponse /\ tool \in {"read_message", "list_channel_messages"}) =>
        /\ \A id \in DOMAIN ResponseMapping :
             /\ id \in MentionsOfResponse
             /\ ResolutionsOf(id) # {}
             /\ IsNil(calls[Last(ResolutionsOf(id))].err)
             /\ CacheHas(userCache, id)
             /\ ResponseMapping[id] = userCache[id]
        /\ \A id \in MentionsOfResponse :
             (ResolutionsOf(id) # {} /\ ~IsNil(calls[Last(ResolutionsOf(id))].err))
                 => id \notin DOMAIN ResponseMapping
        /\ "user_mapping" \in DOMAIN ResponseJSON => DOMAIN ResponseMapping # {}

\* a list_channel_messages response that mentions U1 and U2, where the
\* resolution of U1 failed and only U2 is mapped
C11_Witness ==
    /\ SuccessResponse
    /\ tool = "list_channel_messages"
    /\ MentionsOfResponse = {"U1", "U2"}
    /\ DOMAIN ResponseMapping = {"U2"}
    /\ ~IsNil(calls[Last(ResolutionsOf("U1"))].err)

\* the primary fetch of the running call succeeded; one of its identity
\* lookups failed
PrimarySucceeded ==
    \E i \in DOMAIN calls :
        calls[i].op \in {"GetMessage", "GetChannelHistory", "SearchMessages"} /\ IsNil(calls[i].err)

EnrichmentFailed == FailedCallsOf("GetUserInfo") \cup FailedCallsOf("GetCurrentUser") # {}

\* what the primary fetch of the running call returned besides the error
Returned(op) == calls[Last(CallsOf(op))].ret

\* the response carries what the primary fetch returned
PayloadKept ==
    CASE tool = "read_message" ->
           /\ ResponseJSON["channel_id"][1] = Deref(parsedURL).ChannelID
           /\ ResponseJSON["message"][1]["user"][1] = Deref(locals.message).User
           /\ ResponseJSON["message"][1]["text"][1] = Deref(locals.message).Text
           /\ ResponseJSON["message"][1]["timestamp"][1] = Deref(locals.message).Timestamp
      [] tool = "list_channel_messages" ->
           /\ ResponseJSON["channel_id"][1] = arguments["channel_id"].s
           /\ ResponseJSON["has_more"][1] = Returned("GetChannelHistory")[2]
           /\ DOMAIN ResponseJSON["messages"] = DOMAIN Returned("GetChannelHistory")[1]
           /\ \A i \in DOMAIN ResponseJSON["messages"] :
                /\ ResponseJSON["messages"][i]["user"][1] = Returned("GetChannelHistory")[1][i].User
                /\ ResponseJSON["messages"][i]["text"][1] = Returned("GetChannelHistory")[1][i].Text
                /\ ResponseJSON["messages"][i]["timestamp"][1] = Returned("GetChannelHistory")[1][i].Timestamp
      [] tool = "search_messages" ->
           /\ ResponseJSON["query"][1] = arguments["query"].s
           /\ ResponseJSON["total"][1] = Returned("SearchMessages")[2]
           /\ DOMAIN ResponseJSON["matches"] = DOMAIN Returned("SearchMessages")[1]
           /\ \A i \in DOMAIN ResponseJSON["matches"] :
                /\ ResponseJSON["matches"][i]["user"] = Returned("SearchMessages")[1][i].User
                /\ ResponseJSON["matches"][i]["text"] = Returned("SearchMessages")[1][i].Text
                /\ ResponseJSON["matches"][i]["permalink"] = Returned("SearchMessages")[1][i].Permalink

\* the messages or matches of the response, as marshalled
ReturnedItems ==
    CASE tool = "read_message" ->
           {ResponseJSON["message"][1]}
           \cup (IF "thread" \in DOMAIN ResponseJSON THEN Range(ResponseJSON["thread"]) ELSE {})
      [] tool = "list_channel_messages" -> Range(ResponseJSON["messages"])
      [] tool = "search_messages" -> Range(ResponseJSON["matches"])

AuthorOf(item) == IF tool = "search_messages" THEN item["user"] ELSE item["user"][1]

\* C12: when the primary fetch succeeded, a failed author resolution,
\* mention resolution or current-identity fetch leaves the call a success
\* with the primary payload intact; what is missing is current_user after a
\* failed current-identity fetch, and the resolved names and the mapping
\* entry of an id none of whose resolutions succeeded.
C12_EnrichmentFailureTolerated ==
    (Responded /\ PrimarySucceeded /\ EnrichmentFailed) =>
        /\ ~Deref(response).IsError
        /\ PayloadKept
        /\ FailedCallsOf("GetCurrentUser") # {} => "current_user" \notin DOMAIN ResponseJSON
        /\ \A id \in SeqUserIDs \ {""} :
             (ResolutionsOf(id) # {} /\ ResolutionsOf(id) \subseteq FailedCallsOf("GetUserInfo")) =>
                 /\ id \notin DOMAIN ResponseMapping
                 /\ \A item \in ReturnedItems :
                      AuthorOf(item) = id =>
                          {"display_name", "real_name"} \cap DOMAIN item = {}

\* a search_messages response after the resolution of the author of a match
\* and the current-identity fetch both failed
C12_Witness ==
    /\ SuccessResponse
    /\ tool = "search_messages"
    /\ FailedCallsOf("GetUserInfo") # {}
    /\ FailedCallsOf("GetCurrentUser") # {}
    /\ Len(locals.matches) = MaxMessages

\* a numeric argument value (mant * 10^exp) compared with an integer, and
\* its whole part
IsNumber(v) == v.type \in {"float64", "int"}

NumBelow(v, n) ==
    IF v.exp = -1 THEN v.mant < 10 * n
    ELSE IF v.exp = 0 THEN v.mant < n
    ELSE v.mant < 0 \/ (v.mant = 0 /\ 0 < n)

NumAbove(v, n) ==
    IF v.exp = -1 THEN v.mant > 10 * n
    ELSE IF v.exp = 0 THEN v.mant > n
    ELSE v.mant > 0 \/ (v.mant = 0 /\ 0 > n)

WholePart(v) ==
    IF v.exp = -1 THEN (IF v.mant >= 0 THEN v.mant \div 10 ELSE -((-v.mant) \div 10)) ELSE v.mant

\* passed is v clamped into [lo, hi]; a value inside is passed without its
\* fraction
ClampedAs(v, passed, lo, hi) ==
    /\ NumBelow(v, lo) => passed = lo
    /\ NumAbove(v, hi) => passed = hi
    /\ (~NumBelow(v, lo) /\ ~NumAbove(v, hi)) => passed = WholePart(v)

\* the arguments of the running call pass every check of the handler but
\* the one on key, and key is absent or a number
OnlyNumberInQuestion(required, key, others) ==
    /\ required \in DOMAIN arguments
    /\ arguments[required].type = "string"
    /\ arguments[required].s # ""
    /\ \A k \in others : IsStringOrAbsent(arguments, k)
    /\ key \in DOMAIN arguments => IsNumber(arguments[key])

\* the call made a primary fetch, and the number it passed
PassedNumber(op) == calls[Last(CallsOf(op))].b[1]

\* C13: list_channel_messages passes to GetChannelHistory the requested
\* numeric limit clamped into [1,200] (below 1 becomes 1, above 200 becomes
\* 200, inside unchanged), 100 when limit is absent, and a numeric limit
\* never yields an error result from the argument checks.
C13_LimitClamped ==
    tool = "list_channel_messages" =>
        /\ CallsOf("GetChannelHistory") # {} =>
             IF "limit" \in DOMAIN arguments
               THEN ClampedAs(arguments["limit"], PassedNumber("GetChannelHistory"), MinLimit, MaxLimit)
               ELSE PassedNumber("GetChannelHistory") = DefaultLimit
        /\ (Responded /\ OnlyNumberInQuestion("channel_id", "limit", {"oldest", "latest"}))
             => CallsOf("GetChannelHistory") # {}

\* C14: search_messages passes to SearchMessages the requested numeric count
\* clamped into [1,100] (below 1 becomes 1, above 100 becomes 100, inside
\* unchanged), 20 when count is absent, and a numeric count never yields an
\* error result from the argument checks.
C14_CountClamped ==
    tool = "search_messages" =>
        /\ CallsOf("SearchMessages") # {} =>
             IF "count" \in DOMAIN arguments
               THEN ClampedAs(arguments["count"], PassedNumber("SearchMessages"), MinCount, MaxCount)
               ELSE PassedNumber("SearchMessages") = DefaultCount
        /\ (Responded /\ OnlyNumberInQuestion("query", "count", {}))
             => CallsOf("SearchMessages") # {}

\* the sort order the running call passed to SearchMessages
PassedSort == calls[Last(CallsOf("SearchMessages"))].b[2]

\* C15: search_messages passes sort "timestamp" exactly when the sort
\* argument is the string "timestamp"; with sort absent, "score", another
\* string or a value that is not a string it passes "score", and no value of
\* sort makes the argument checks return an error.
C15_SortFallsBackToScore ==
    tool = "search_messages" =>
        /\ CallsOf("SearchMessages") # {} =>
             PassedSort = IF /\ "sort" \in DOMAIN arguments
                             /\ arguments["sort"] = StringValue("timestamp")
                            THEN "timestamp"
                            ELSE "score"
        /\ (Responded /\ "sort" \in DOMAIN arguments /\ OnlyNumberInQuestion("query", "count", {}))
             => CallsOf("SearchMessages") # {}

\* a search made with a sort argument that is a string other than the two
\* accepted ones
C15_Witness ==
    /\ tool = "search_messages"
    /\ CallsOf("SearchMessages") # {}
    /\ "sort" \in DOMAIN arguments
    /\ arguments["sort"] = StringValue("Timestamp")
    /\ PassedSort = "score"

\* C16: has_more of a successful list_channel_messages response is the
\* hasMore flag GetChannelHistory returned, whatever the number of messages
\* and the limit, and the messages are the returned ones in number and
\* order.
C16_HasMoreVerbatim ==
    (SuccessResponse /\ tool = "list_channel_messages") =>
        /\ ResponseJSON["has_more"][1] = Returned("GetChannelHistory")[2]
        /\ Len(ResponseJSON["messages"]) = Len(Returned("GetChannelHistory")[1])
        /\ \A i \in DOMAIN ResponseJSON["messages"] :
             /\ ResponseJSON["messages"][i]["user"][1] = Returned("GetChannelHistory")[1][i].User
             /\ ResponseJSON["messages"][i]["text"][1] = Returned("GetChannelHistory")[1][i].Text
             /\ ResponseJSON["messages"][i]["timestamp"][1] = Returned("GetChannelHistory")[1][i].Timestamp

\* a response with has_more false although the page holds more messages
\* than the limit asked for, the two messages in the remote's order
C16_Witness ==
    /\ SuccessResponse
    /\ tool = "list_channel_messages"
    /\ PassedNumber("GetChannelHistory") = MinLimit
    /\ Len(ResponseJSON["messages"]) > MinLimit
    /\ ResponseJSON["messages"][1]["user"][1] = ""
    /\ ResponseJSON["messages"][2]["user"][1] = "U1"
    /\ ResponseJSON["has_more"][1] = FALSE

\* the required argument of the running tool, and whether the call came
\* without a usable one: absent, empty or, where the handler looks at the
\* type, not a string
RequiredArgument ==
    CASE tool = "read_message" -> "url"
      [] tool = "list_channel_messages" -> "channel_id"
      [] tool = "search_messages" -> "query"

RequiredMissing ==
    IF tool = "read_message" THEN url = ""
    ELSE \/ RequiredArgument \notin DOMAIN arguments
         \/ arguments[RequiredArgument].type # "string"
         \/ arguments[RequiredArgument].s = ""

\* C17: a call of any of the three tools whose required argument is absent,
\* empty or (channel_id, query) not a string ends at once in an error
\* result whose text names the argument, without any call of the client.
C17_RequiredArgumentChecked ==
    (tool # "" /\ RequiredMissing) =>
        /\ Responded
        /\ Deref(response).IsError
        /\ Contains(Deref(response).Text, "'" \o RequiredArgument \o "'")
        /\ calls = <<>>

\* a list_channel_messages call whose channel_id is a number, rejected
C17_Witness ==
    /\ Responded
    /\ tool = "list_channel_messages"
    /\ "channel_id" \in DOMAIN arguments
    /\ arguments["channel_id"].type = "float64"
    /\ Deref(response).Text = "argument 'channel_id' must be a string"

\* the optional numeric argument of the running tool
NumericArgument == IF tool = "list_channel_messages" THEN "limit" ELSE "count"

\* C18: a list_channel_messages limit or search_messages count that is
\* present and not a number (the required argument being in order) ends
\* the call in an error result naming the argument, without any call of
\* the client: no default and no clamped value is passed on.
C18_NonNumericRejected ==
    (/\ tool \in {"list_channel_messages", "search_messages"}
     /\ ~RequiredMissing
     /\ NumericArgument \in DOMAIN arguments
     /\ ~IsNumber(arguments[NumericArgument])) =>
        /\ Responded
        /\ Deref(response).IsError
        /\ Contains(Deref(response).Text, "'" \o NumericArgument \o "'")
        /\ calls = <<>>

\* a search_messages call whose count is the string "10", rejected
C18_Witness ==
    /\ Responded
    /\ tool = "search_messages"
    /\ ~RequiredMissing
    /\ "count" \in DOMAIN arguments
    /\ arguments["count"] = StringValue("10")
    /\ Deref(response).Text = "argument 'count' must be a number"

\* the search of the running call failed for want of a user token
SearchFailedWithoutUserToken ==
    \E i \in CallsOf("SearchMessages") : GetErrorCode(calls[i].err) = ErrCodeUserTokenNotConfigured

\* C19: when SearchMessages fails with UserTokenNotConfigured the call ends
\* in an error result saying that SLACK_USER_TOKEN is not configured; it
\* returns no matches and makes no GetUserInfo and no GetCurrentUser call.
C19_UserTokenNotConfigured ==
    (tool = "search_messages" /\ SearchFailedWithoutUserToken) =>
        /\ Responded
        /\ Deref(response).IsError
        /\ Contains(Deref(response).Text, "SLACK_USER_TOKEN not configured")
        /\ IsNil(Deref(response).JSON)
        /\ IsNil(result)
        /\ CallsOf("GetUserInfo") \cup CallsOf("GetCurrentUser") = {}
        /\ Len(calls) = 1

\* a search that failed for want of a user token
C19_Witness ==
    /\ Responded
    /\ tool = "search_messages"
    /\ SearchFailedWithoutUserToken
    /\ Deref(response).IsError

\* the client operations that fetch messages
FetchOps == {"GetMessage", "GetChannelHistory", "SearchMessages", "GetThread"}

\* the items the running call fetched (after its primary fetch succeeded),
\* and how often the call has to resolve id: once for each item id wrote
\* and once more when a fetched text mentions id
FetchedItems ==
    CASE tool = "read_message" -> <<Deref(locals.message)>> \o locals.thread
      [] tool = "list_channel_messages" -> locals.messages
      [] tool = "search_messages" -> locals.matches

Occurrences(id) ==
    Cardinality({i \in DOMAIN FetchedItems : FetchedItems[i].User = id})
    + (IF tool # "search_messages"
          /\ \E i \in DOMAIN FetchedItems : id \in Range(ExtractMentions(FetchedItems[i].Text))
         THEN 1 ELSE 0)

\* C20 as stated: the primary fetch and GetThread are called at most once in
\* a tool call, and no failed call of the client is followed in the same
\* tool call by a call of the same operation with the same arguments.
C20_NoFailedCallReissued ==
    /\ \A op \in FetchOps : Cardinality(CallsOf(op)) <= 1
    /\ \A i \in DOMAIN calls : \A j \in DOMAIN calls :
         (i < j /\ ~IsNil(calls[i].err)) =>
             ~(calls[j].op = calls[i].op /\ calls[j].a = calls[i].a /\ calls[j].b = calls[i].b)

\* C20 amended: the primary fetch, GetThread and GetCurrentUser are called
\* at most once in a tool call; a failed primary fetch or GetThread is the
\* last call of the tool call and is surfaced (an error result, for
\* GetThread the note on the partial result); GetUserInfo is called at most
\* once for each place an id occurs in, so a failed lookup is not repeated
\* for that place, though the id is looked up again where it occurs again.
C20_FetchesNotRetried ==
    /\ \A op \in FetchOps \cup {"GetCurrentUser"} : Cardinality(CallsOf(op)) <= 1
    /\ \A op \in FetchOps : \A i \in FailedCallsOf(op) :
         /\ i = Len(calls)
         /\ Responded
         /\ IF op = "GetThread"
              THEN ~Deref(response).IsError /\ Contains(Deref(response).Text, Deref(calls[i].err).Message)
              ELSE Deref(response).IsError
    /\ (Responded /\ PrimarySucceeded) =>
         \A id \in SeqUserIDs \ {""} : Cardinality(ResolutionsOf(id)) <= Occurrences(id)

\* a list_channel_messages call answered after one GetChannelHistory call,
\* in which a lookup of U1 failed and U1 was looked up again further on
C20_Witness ==
    /\ Responded
    /\ tool = "list_channel_messages"
    /\ Cardinality(CallsOf("GetChannelHistory")) = 1
    /\ \E i \in FailedCallsOf("GetUserInfo") : \E j \in ResolutionsOf("U1") :
         i < j /\ calls[i].a = "U1"

-----------------------------------------------------------------------------
(* Properties of the client's fetches *)

\* the number of conversations.replies requests the GetThread call of the
\* running tool call sent to the remote service
ThreadRequests == {calls[i].ret : i \in CallsOf("GetThread")}

\* C21: a tool call fetches at most one page per remote fetch: read_message
\* sends at most one conversations.replies request for the thread,
\* list_channel_messages makes one history fetch and search_messages one
\* search fetch, whatever the remote reports about further pages.
C21_OnePagePerFetch ==
    /\ \A n \in ThreadRequests : n <= 1
    /\ Cardinality(CallsOf("GetChannelHistory")) <= 1
    /\ Cardinality(CallsOf("SearchMessages")) <= 1

-----------------------------------------------------------------------------
(* Properties of the mention extractor (specification SpecMentions) *)

Applied(fn) == ~IsNil(output) /\ Deref(output).fn = fn

\* text[i..j] is a user mention <@U[A-Z0-9]+>
IsUserMention(text, i, j) ==
    /\ j >= i + 4
    /\ j <= Len(text)
    /\ SubSeq(text, i, i + 2) = "<@U"
    /\ CharAt(text, j) = ">"
    /\ \A k \in (i + 3)..(j - 1) : CharAt(text, k) \in Upper \cup Digits

\* the positions at which id is mentioned in text
MentionPositions(text, id) ==
    {i \in 1..Len(text) : \E j \in i..Len(text) :
        IsUserMention(text, i, j) /\ SubSeq(text, i + 2, j - 1) = id}

MentionedIDs(text) ==
    {SubSeq(text, i + 2, j - 1) : <<i, j>> \in
        {ij \in (1..Len(text)) \X (1..Len(text)) : IsUserMention(text, ij[1], ij[2])}}

FirstPosition(text, id) ==
    CHOOSE i \in MentionPositions(text, id) : \A k \in MentionPositions(text, id) : i <= k

\* C22: ExtractMentions(text) returns exactly the user ids mentioned in text
\* as <@U[A-Z0-9]+>, each once, in the order of their first occurrence, and
\* an empty slice that is not nil when there is none; no other mention form
\* contributes an id.
C22_ExtractMentionsExact ==
    Applied("ExtractMentions") =>
        /\ ~IsNil(Deref(output).slice)
        /\ Range(Deref(Deref(output).slice)) = MentionedIDs(input)
        /\ \A k \in DOMAIN Deref(Deref(output).slice) : \A l \in DOMAIN Deref(Deref(output).slice) :
             k < l => FirstPosition(input, Deref(Deref(output).slice)[k])
                        < FirstPosition(input, Deref(Deref(output).slice)[l])

\* a text mentioning U2A, U1 and U2A again
C22_Witness ==
    /\ Applied("ExtractMentions")
    /\ input = "<@U2A><@U1><@U2A>"
    /\ Deref(output).slice = Some(<<"U2A", "U1">>)

-----------------------------------------------------------------------------
(* Properties of the URL parser (specifications SpecTimestamp and SpecParser) *)

IsTimestampDigits(d) == Len(d) = 16 /\ AllIn(d, Digits)

\* ts with its dots deleted
RECURSIVE WithoutDots(_)
WithoutDots(ts) ==
    IF ts = "" THEN ""
    ELSE IF CharAt(ts, 1) = "." THEN WithoutDots(SubSeq(ts, 2, Len(ts)))
    ELSE CharAt(ts, 1) \o WithoutDots(SubSeq(ts, 2, Len(ts)))

\* C23: for a 16-digit string D, convertTimestamp(D) is D[1..10], a dot,
\* D[11..16], without error; deleting the dot gives back D; and Parse of a
\* message URL whose last path segment is "p" and D returns that value as
\* Timestamp.
C23_TimestampConversion ==
    IsTimestampDigits(input) =>
        /\ Applied("convertTimestamp") =>
             /\ IsNil(Deref(output).ret.err)
             /\ Deref(output).ret.ts = SubSeq(input, 1, 10) \o "." \o SubSeq(input, 11, 16)
             /\ WithoutDots(Deref(output).ret.ts) = input
        /\ Applied("Parse") =>
             /\ IsNil(Deref(output).ret.err)
             /\ Deref(Deref(output).ret.url).Timestamp = SubSeq(input, 1, 10) \o "." \o SubSeq(input, 11, 16)
             /\ WithoutDots(Deref(Deref(output).ret.url).Timestamp) = input

\* Parse applied to the URL with the path timestamp p1355517523000008
C23_Witness ==
    /\ Applied("Parse")
    /\ input = "1355517523000008"
    /\ Deref(Deref(output).ret.url).Timestamp = "1355517523.000008"


\* Parse was applied and gave a coordinate
Parsed == Applied("Parse") /\ IsNil(Deref(output).ret.err)

Coordinate == Deref(Deref(output).ret.url)

\* the input without its query and fragment
WithoutQuery(in) == [in EXCEPT !.params = <<>>, !.fragment = ""]

\* the parameters of the input written with the key thread_ts
ThreadParams == {i \in DOMAIN input.params : input.params[i].key = "thread_ts"}

\* C24 as stated: a non-empty thread_ts=T gives IsThread and ThreadTS = T
\* verbatim, whatever the other parameters and the fragment; without a
\* non-empty thread_ts, IsThread is false and ThreadTS empty; the channel
\* and the timestamp do not depend on the query.
C24_ThreadTSVerbatim ==
    (Applied("Parse") /\ input \in ThreadURLInputs) =>
        /\ Parsed
        /\ \A i \in ThreadParams :
             (ThreadParams = {i} /\ input.params[i].value # "") =>
                 Coordinate.IsThread /\ Coordinate.ThreadTS = input.params[i].value
        /\ (\A i \in ThreadParams : input.params[i].value = "") =>
             ~Coordinate.IsThread /\ Coordinate.ThreadTS = ""
        /\ Coordinate.IsThread <=> Coordinate.ThreadTS # ""
        /\ Coordinate.ChannelID = Deref(Parse(URLOf(WithoutQuery(input))).url).ChannelID
        /\ Coordinate.Timestamp = Deref(Parse(URLOf(WithoutQuery(input))).url).Timestamp

\* the parameters the query parser keeps: no semicolon, no bad escape
KeptParams ==
    {i \in DOMAIN input.params :
        /\ IndexOf(input.params[i].key \o input.params[i].value, ";") = 0
        /\ BadEscapes(input.params[i].key) = {}
        /\ BadEscapes(input.params[i].value) = {}}

\* the kept parameters whose unescaped key is thread_ts
KeptThreadParams == {i \in KeptParams : Unescape(input.params[i].key, TRUE) = "thread_ts"}

\* the unescaped value of the first of them, "" when there is none
FirstThreadValue ==
    IF KeptThreadParams = {} THEN ""
    ELSE Unescape(input.params[CHOOSE i \in KeptThreadParams : \A j \in KeptThreadParams : i <= j].value,
                  TRUE)

\* a value the unescaping leaves as it is
IsPlainValue(v) == \A c \in {"%", "+", ";"} : IndexOf(v, c) = 0

\* C24 amended: ThreadTS is the unescaped value of the first parameter with
\* the (unescaped) key thread_ts among the parameters that hold no semicolon
\* and no bad escape, "" when there is none, without format validation, and
\* IsThread holds exactly when ThreadTS is not empty; so a single
\* thread_ts=T with T free of "%", "+" and ";" gives ThreadTS = T verbatim,
\* whatever the parameter order, the other parameters and the fragment; the
\* channel and the timestamp do not depend on the query.
C24_ThreadTSDecoded ==
    (Applied("Parse") /\ input \in ThreadURLInputs) =>
        /\ Parsed
        /\ Coordinate.ThreadTS = FirstThreadValue
        /\ Coordinate.IsThread <=> Coordinate.ThreadTS # ""
        /\ \A i \in ThreadParams :
             (KeptThreadParams = {i} /\ IsPlainValue(input.params[i].value)) =>
                 /\ Coordinate.ThreadTS = input.params[i].value
                 /\ Coordinate.IsThread <=> input.params[i].value # ""
        /\ Coordinate.ChannelID = Deref(Parse(URLOf(WithoutQuery(input))).url).ChannelID
        /\ Coordinate.Timestamp = Deref(Parse(URLOf(WithoutQuery(input))).url).Timestamp

\* a thread URL with cid before thread_ts and a fragment
C24_Witness ==
    /\ Parsed
    /\ input.params = <<QueryParam("cid", "C01234567"), QueryParam("thread_ts", "1355517523.000008")>>
    /\ input.fragment = "#some-fragment"
    /\ Coordinate.IsThread
    /\ Coordinate.ThreadTS = "1355517523.000008"


\* what the claim lists as deviations of a URL from the message URL form
EmptyURL == URLOf(input) = ""

WrongHost == ~HasSuffix(input.host, ".slack.com")

WrongScheme == ToLower(input.scheme) # "https"

WrongPath ==
    \/ input.prefix # "/archives/"
    \/ input.channel = ""
    \/ ~AllIn(input.channel, Upper \cup Digits)
    \/ input.tsPrefix # "/p"
    \/ ~AllIn(input.digits, Digits)
    \/ input.suffix # ""

WrongDigitCount == Len(input.digits) # 16

\* C25: Parse fails with the code invalid_url and returns no coordinate for
\* the empty string, a host not ending in .slack.com, a scheme other than
\* https, a path not of the form /archives/{channel}/p{digits} and a path
\* timestamp of other than 16 digits; a URL free of these deviations
\* parses; and every failure of Parse carries the code invalid_url.
C25_InvalidURLRejected ==
    Applied("Parse") =>
        /\ ~IsNil(Deref(output).ret.err) =>
             /\ GetErrorCode(Deref(output).ret.err) = ErrCodeInvalidURL
             /\ IsNil(Deref(output).ret.url)
        /\ input \in PlainURLInputs =>
             (Parsed <=> ~(EmptyURL \/ WrongHost \/ WrongScheme \/ WrongPath \/ WrongDigitCount))

\* a URL whose only deviation is the lowercase channel id
C25_Witness ==
    /\ Applied("Parse")
    /\ input = URLPieces("https", "://", "ws.slack.com", "/archives/", "c01234567", "/p",
                         "1355517523000008", "", <<>>, "")
    /\ GetErrorCode(Deref(output).ret.err) = ErrCodeInvalidURL

-----------------------------------------------------------------------------
(* Properties of the identity resolver under directory failures            *)
(* (specification SpecSeq)                                                 *)

\* the calls of the log that went to the directory and got a failure other
\* than user-not-found
FailedLookups ==
    {i \in DOMAIN seqLog :
        /\ seqLog[i].port
        /\ ~IsNil(seqLog[i].reply.err)
        /\ ~Contains(Deref(seqLog[i].reply.err).Message, "user_not_found")
        /\ ~Contains(Deref(seqLog[i].reply.err).Message, "users_not_found")}

\* the cache a call of the log left: the one the next call found, or the
\* current one
CacheAfter(i) == IF i < Len(seqLog) THEN seqLog[i + 1].before ELSE userCache

\* C26: a GetUserInfo call for an id not cached whose directory call fails
\* with anything but user-not-found (a cancelled or timed-out call
\* included) returns no identity and the classified error and leaves the
\* cache as it was, without an entry for the id; the next call for that id
\* goes to the directory again.
C26_FailureLeavesCache ==
    \A i \in FailedLookups :
        /\ IsNil(seqLog[i].info)
        /\ seqLog[i].err = wrapSlackError(seqLog[i].reply.err)
        /\ ~IsNil(seqLog[i].err)
        /\ CacheAfter(i) = seqLog[i].before
        /\ seqLog[i].userID \notin DOMAIN CacheAfter(i)
        /\ \A j \in DOMAIN seqLog :
             (/\ i < j
              /\ seqLog[j].userID = seqLog[i].userID
              /\ \A k \in (i + 1)..(j - 1) : seqLog[k].userID # seqLog[i].userID) =>
                 seqLog[j].port

\* a lookup of U1 cancelled while U2 is cached, then U1 looked up again
C26_Witness ==
    /\ Len(seqLog) = 3
    /\ seqLog[1].userID = "U2" /\ IsNil(seqLog[1].err)
    /\ seqLog[2].userID = "U1"
    /\ 2 \in FailedLookups
    /\ Deref(seqLog[2].reply.err).Message = "context canceled"
    /\ seqLog[3].userID = "U1" /\ seqLog[3].port
    /\ DOMAIN seqLog[3].before = {"U2"}

-----------------------------------------------------------------------------
(* Properties of the identity resolver under concurrent calls              *)
(* (specification SpecConc)                                                *)

\* the calls that have returned an identity for id and not yet been left
ReturnedIdentity(ps, id) ==
    {p \in Procs : ps[p].userID = id /\ ps[p].pc = "returned" /\ IsNil(ps[p].err) /\ ~IsNil(ps[p].info)}

\* C27: a GetUserInfo(id) call returns an identity only once the cache holds
\* an entry for id, entries are never removed, and a call that starts while
\* the cache holds an entry for id returns it without calling the
\* directory; so after a successful return only the calls that started
\* before the first store can still call the directory for id.
C27_NoDirectoryCallAfterSuccess ==
    /\ [](\A id \in SeqUserIDs : ReturnedIdentity(procs, id) # {} => id \in DOMAIN userCache)
    /\ [][/\ DOMAIN userCache \subseteq DOMAIN userCache'
          /\ \A p \in Procs :
               (/\ procs[p].pc = "idle"
                /\ procs'[p].pc # "idle"
                /\ procs'[p].userID \in DOMAIN userCache) =>
                   /\ procs'[p].pc = "returned"
                   /\ IsNil(procs'[p].err)
                   /\ procs'[p].info = Some(userCache[procs'[p].userID])
          /\ \A p \in Procs :
               (procs'[p].pc = "port" /\ procs'[p].userID \in DOMAIN userCache) =>
                   procs[p].pc = "port"]_vars

\* a call has returned an identity of U1 while a call for U1 that missed
\* the cache before is still at the directory
C27_Witness ==
    /\ ReturnedIdentity(procs, "U1") # {}
    /\ \E q \in Procs : procs[q].pc = "port" /\ procs[q].userID = "U1"

-----------------------------------------------------------------------------
(* Properties of GetCurrentUser (specification SpecCurrent) *)

\* the GetCurrentUser calls of the log, and those whose auth.test succeeded
CurrentUserCalls == {i \in DOMAIN seqLog : "auth" \in DOMAIN seqLog[i]}

Identified == {i \in CurrentUserCalls : IsNil(seqLog[i].auth.err)}

\* a failed auth.test ends the call: its classified error, no directory
\* call, the cache unchanged; after a successful one the call is
\* GetUserInfo of the id auth.test gave
IdentifyThenResolve ==
    /\ \A i \in CurrentUserCalls \ Identified :
         /\ IsNil(seqLog[i].info)
         /\ seqLog[i].err = wrapSlackError(seqLog[i].auth.err)
         /\ ~IsNil(seqLog[i].err)
         /\ ~seqLog[i].port
         /\ CacheAfter(i) = seqLog[i].before
    /\ \A i \in Identified :
         /\ seqLog[i].info = GetUserInfo(seqLog[i].before, seqLog[i].auth.UserID, seqLog[i].reply).info
         /\ seqLog[i].err = GetUserInfo(seqLog[i].before, seqLog[i].auth.UserID, seqLog[i].reply).err
         /\ seqLog[i].port = GetUserInfo(seqLog[i].before, seqLog[i].auth.UserID, seqLog[i].reply).port
         /\ CacheAfter(i) = GetUserInfo(seqLog[i].before, seqLog[i].auth.UserID, seqLog[i].reply).cache
         /\ seqLog[i].port => seqLog[i].auth.UserID \notin DOMAIN seqLog[i].before

\* C28 as stated: besides the above, whenever auth.test succeeds the result
\* is cached, so that a second GetCurrentUser makes no directory call.
C28_SecondCallNoDirectory ==
    /\ IdentifyThenResolve
    /\ \A i \in Identified :
         /\ seqLog[i].auth.UserID \in DOMAIN CacheAfter(i)
         /\ \A j \in Identified : (i < j /\ seqLog[j].auth.UserID = seqLog[i].auth.UserID) => ~seqLog[j].port

\* C28 amended: besides the above, when the call returns an identity (a
\* profile or the placeholder of a deleted user) the identity is in the
\* cache, and a later GetCurrentUser for the same id returns it without a
\* directory call; when the directory call fails nothing is cached.
C28_CurrentUserThroughCache ==
    /\ IdentifyThenResolve
    /\ \A i \in Identified :
         IF IsNil(seqLog[i].err) /\ ~IsNil(seqLog[i].info)
           THEN /\ CacheAfter(i)[seqLog[i].auth.UserID] = Deref(seqLog[i].info)
                /\ \A j \in Identified :
                     (i < j /\ seqLog[j].auth.UserID = seqLog[i].auth.UserID) =>
                         /\ ~seqLog[j].port
                         /\ seqLog[j].info = seqLog[i].info
                         /\ IsNil(seqLog[j].err)
           ELSE CacheAfter(i) = seqLog[i].before

\* two GetCurrentUser calls: the first fetched the profile from the
\* directory, the second did not call the directory
C28_Witness ==
    /\ Len(seqLog) >= 2
    /\ {1, 2} \subseteq Identified
    /\ seqLog[1].port /\ IsNil(seqLog[1].err)
    /\ ~seqLog[2].port
    /\ seqLog[2].info = seqLog[1].info

-----------------------------------------------------------------------------
(* Properties of the error classifier (specification SpecErrors) *)

\* the keywords and the kind they stand for, in the order of priority
KeywordPriority ==
    <<[keywords |-> {"rate_limit", "ratelimited"}, code |-> ErrCodeRateLimited],
      [keywords |-> {"invalid_auth", "not_authed"}, code |-> ErrCodeInvalidToken],
      [keywords |-> {"missing_scope", "token_expired"}, code |-> ErrCodeInvalidToken],
      [keywords |-> {"channel_not_found"}, code |-> ErrCodeChannelNotFound],
      [keywords |-> {"not_in_channel"}, code |-> ErrCodeNotInChannel],
      [keywords |-> {"access_denied", "is_archived"}, code |-> ErrCodePermissionDenied],
      [keywords |-> {"message_not_found", "thread_not_found"}, code |-> ErrCodeMessageNotFound]>>

\* the rows of the table one of whose keywords occurs in text
MatchingRows(text) ==
    {r \in DOMAIN KeywordPriority : \E k \in KeywordPriority[r].keywords : Contains(text, k)}

\* C29: wrapSlackError maps nil to nil and every other error to one error
\* whose kind is that of the first row of the priority table with a keyword
\* occurring in the text, whatever the order of the keywords in the text;
\* an error without keyword becomes an unclassified error whose message
\* contains the raw text.
C29_KeywordPriority ==
    Applied("wrapSlackError") =>
        IF IsNil(input) THEN IsNil(Deref(output).ret)
        ELSE /\ ~IsNil(Deref(output).ret)
             /\ IF MatchingRows(Deref(input).Message) = {}
                  THEN /\ GetErrorCode(Deref(output).ret) \notin
                            {KeywordPriority[r].code : r \in DOMAIN KeywordPriority}
                       /\ Contains(Deref(Deref(output).ret).Message, Deref(input).Message)
                  ELSE GetErrorCode(Deref(output).ret) =
                         KeywordPriority[CHOOSE r \in MatchingRows(Deref(input).Message) :
                                            \A q \in MatchingRows(Deref(input).Message) : r <= q].code

\* a text naming channel_not_found before ratelimited is a rate limit
C29_Witness ==
    /\ Applied("wrapSlackError")
    /\ input = TransportError("channel_not_found" \o "ratelimited")
    /\ GetErrorCode(Deref(output).ret) = ErrCodeRateLimited

-----------------------------------------------------------------------------
(* Properties of GetThread's pagination loop (specification SpecThread) *)

ThreadReturned == Applied("GetThread") /\ Deref(output).pc = "returned"

RECURSIVE ConcatPages(_, _)
\* the messages of the first n pages, in order
ConcatPages(pages, n) ==
    IF n = 0 THEN <<>>
    ELSE ConcatPages(pages, n - 1)
         \o [k \in 1..Len(pages[n].Messages) |-> convertMessage(pages[n].Messages[k])]

\* what a returned GetThread call has done, n being the number of its
\* requests
ThreadResultExact ==
    LET st == Deref(output)
        n  == Len(st.sent)
    IN  /\ n >= 1
        /\ st.sent[1] = ""
        /\ \A k \in 2..n : st.sent[k] = input[k - 1].NextCursor
        /\ \A k \in 1..(n - 1) : IsNil(input[k].err) /\ input[k].HasMore
        /\ IF ~IsNil(input[n].err)
             THEN /\ Deref(st.ret).err = wrapSlackError(input[n].err)
                  /\ Deref(st.ret).thread = <<>>
             ELSE /\ ~input[n].HasMore
                  /\ IF ConcatPages(input, n) = <<>>
                       THEN /\ GetErrorCode(Deref(st.ret).err) = ErrCodeMessageNotFound
                            /\ Deref(st.ret).thread = <<>>
                       ELSE /\ IsNil(Deref(st.ret).err)
                            /\ Deref(st.ret).thread = ConcatPages(input, n)
        /\ Deref(st.ret).thread = GetThread(input, ChannelID, OtherTimestamp).thread
        /\ Deref(st.ret).err = GetThread(input, ChannelID, OtherTimestamp).err
        /\ n = GetThread(input, ChannelID, OtherTimestamp).requests

\* C30: when the remote ends its pages with one that has no more or with
\* an error, GetThread returns; each request carries the cursor of the
\* page before; the result is the concatenation in request order of the
\* pages received, MessageNotFound when it is empty, and for a failing
\* page the classified error and no message.
C30_PaginationTerminates ==
    /\ <>ThreadReturned
    /\ [](ThreadReturned => ThreadResultExact)

\* a thread returned from two pages of two messages and one message
C30_Witness ==
    /\ ThreadReturned
    /\ Len(Deref(output).sent) = 2
    /\ IsNil(Deref(Deref(output).ret).err)
    /\ Len(Deref(Deref(output).ret).thread) = 3

====
